---- MODULE Spec2Model ----
(***************************************************************************)
(* Shurly: slug resolution through the single-flight slug cache, cache     *)
(* invalidation by the administrative write paths, the redirect handler    *)
(* and the page hit collector (bounded channel plus background consumer).  *)
(***************************************************************************)
EXTENDS Integers, Sequences, FiniteSets, TLC

\* ---------------------------------------------------------------- bounds
MaxRequests == 2
MaxAdminOps == 1
\* administrative requests handled at the same time
MaxAdminHandlers == 2
\* the clock of the token checks stops here
MaxTime == 3
\* the channel capacity of the program is 10000; the model scales it down
PAGE_HIT_COLLECTOR_CHANNEL_CAPACITY == 1
\* the cache capacity of the program is 10000; the model scales it down
DEFAULT_CACHE_MAX_CAPACITY == 1

Slugs == {"a", "b"}
Requests == 1..MaxRequests
\* the ids Uuid::new_v4 draws from: one destination and one alias of it
DestIds == {1}
AliasIds == {1}
\* the handlers of concurrent administrative requests, and the ids
\* Uuid::new_v4 draws from for the rows they insert
AdminHandlers == 1..MaxAdminHandlers
AdminDestIds == 1..(MaxAdminHandlers + 1)
AdminAliasIds == 1..MaxAdminHandlers

\* ------------------------------------------------------------ Option<T>
None == << >>
Some(x) == << x >>
IsSome(o) == o # << >>
Unwrap(o) == o[1]

\* core::result::Result, in one record shape so that results compare
OkRes(v) == [ok |-> TRUE, val |-> v, err |-> ""]
ErrRes(e) == [ok |-> FALSE, val |-> None, err |-> e]

\* what the store reports when a query fails: the text of the sqlx error
StoreFailures == {"pool timed out", "connection refused"}

\* connection_error, and Display of the Error::Connection it makes: the
\* text of the underlying error behind "Connection error: "
connection_error(err) ==
    CASE err = "pool timed out" -> "Connection error: pool timed out"
      [] err = "connection refused" -> "Connection error: connection refused"

\* Error::PageHitScheduling, as Display prints it
PageHitSchedulingError == "Page hit scheduling error"

\* ------------------------------------------------------------------ Url
\* a parsed url::Url: everything up to the query, and the query as the pairs
\* query_pairs() yields; query is None when the URL has no '?'
Url(base, query) == [base |-> base, query |-> query]

QueryPair(name, value) == [name |-> name, value |-> value]

\* Url::query_pairs
query_pairs(url) == IF IsSome(url.query) THEN Unwrap(url.query) ELSE << >>

\* ------------------------------------------------------------- the store
Destination(id, slug, url, perm, fwd) ==
    [id |-> id, slug |-> slug, url |-> url, is_permanent |-> perm,
     forward_query_parameters |-> fwd, deleted |-> FALSE]

Alias(id, slug, did) ==
    [id |-> id, slug |-> slug, destination_id |-> did, deleted |-> FALSE]

\* SELECT * FROM destinations WHERE slug = $1 LIMIT 1: every row the query
\* may return (one of the matching rows, or no row)
find_single_destination_by_slug(D, s) ==
    LET m == {i \in DOMAIN D : D[i].slug = s}
    IN  IF m = {} THEN {None} ELSE {Some(D[i]) : i \in m}

find_single_alias_by_slug(A, s) ==
    LET m == {i \in DOMAIN A : A[i].slug = s}
    IN  IF m = {} THEN {None} ELSE {Some(A[i]) : i \in m}

find_single_destination_by_id_unchecked(D, id) ==
    IF id \in DOMAIN D THEN Some(D[id]) ELSE None

find_single_destination_by_id(D, id) ==
    IF id \in DOMAIN D /\ ~D[id].deleted THEN Some(D[id]) ELSE None

find_single_alias_by_id(A, did, aid) ==
    IF aid \in DOMAIN A /\ ~A[aid].deleted /\ A[aid].destination_id = did
    THEN Some(A[aid]) ELSE None

\* ------------------------------------------------------ SlugFoundSummary
SlugFoundSummary(kind, d, a) == [kind |-> kind, destination |-> d, alias |-> a]

is_deleted(summary) == summary.kind \in {"DestinationDeleted", "AliasDeleted"}

\* fetch_destination_by_slug is three store reads with an await between
\* them; a fetch in progress is [phase, alias, out]
FetchInit == [phase |-> "dest", alias |-> None, out |-> OkRes(None)]
FetchDone(res) == [phase |-> "done", alias |-> None, out |-> res]

\* a fetch that looks at the soft-delete of the alias before the one of its
\* destination
FetchAfterRead_AliasFirst(f, D, A, s) ==
    CASE f.phase = "dest" ->
           { IF IsSome(od)
             THEN FetchDone(OkRes(Some(SlugFoundSummary(
                      IF Unwrap(od).deleted THEN "DestinationDeleted"
                                            ELSE "DestinationExists",
                      Unwrap(od), None))))
             ELSE [f EXCEPT !.phase = "alias"]
             : od \in find_single_destination_by_slug(D, s) }
      [] f.phase = "alias" ->
           { IF IsSome(oa)
             THEN [f EXCEPT !.phase = "destid", !.alias = oa]
             ELSE FetchDone(OkRes(None))
             : oa \in find_single_alias_by_slug(A, s) }
      [] f.phase = "destid" ->
           LET a == Unwrap(f.alias)
               od == find_single_destination_by_id_unchecked(D, a.destination_id)
           IN  IF ~IsSome(od)
               THEN {[f EXCEPT !.phase = "panicked"]}
               ELSE LET d == Unwrap(od)
                    IN {FetchDone(OkRes(Some(SlugFoundSummary(
                          IF a.deleted THEN "AliasDeleted"
                          ELSE IF d.deleted THEN "DestinationDeleted"
                          ELSE "AliasExists",
                          d, Some(a)))))}
      [] OTHER -> {}

\* the fetches one successful store read can lead to
FetchAfterRead(f, D, A, s) ==
    CASE f.phase = "dest" ->
           { IF IsSome(od)
             THEN FetchDone(OkRes(Some(SlugFoundSummary(
                      IF Unwrap(od).deleted THEN "DestinationDeleted"
                                            ELSE "DestinationExists",
                      Unwrap(od), None))))
             ELSE [f EXCEPT !.phase = "alias"]
             : od \in find_single_destination_by_slug(D, s) }
      [] f.phase = "alias" ->
           { IF IsSome(oa)
             THEN [f EXCEPT !.phase = "destid", !.alias = oa]
             ELSE FetchDone(OkRes(None))
             : oa \in find_single_alias_by_slug(A, s) }
      [] f.phase = "destid" ->
           LET a == Unwrap(f.alias)
               od == find_single_destination_by_id_unchecked(D, a.destination_id)
           IN  IF ~IsSome(od)
               THEN {[f EXCEPT !.phase = "panicked"]}
               ELSE LET d == Unwrap(od)
                    IN {FetchDone(OkRes(Some(SlugFoundSummary(
                          IF d.deleted THEN "DestinationDeleted"
                          ELSE IF a.deleted THEN "AliasDeleted"
                          ELSE "AliasExists",
                          d, Some(a)))))}
      [] OTHER -> {}

\* what a fetch that runs without interruption and without a store failure
\* returns in the store (D, A): the committed state of the slug
Committed(D, A, s) ==
    LET s1 == FetchAfterRead(FetchInit, D, A, s)
        s2 == UNION {IF f.phase = "done" THEN {f} ELSE FetchAfterRead(f, D, A, s) : f \in s1}
        s3 == UNION {IF f.phase = "done" THEN {f} ELSE FetchAfterRead(f, D, A, s) : f \in s2}
    IN  {f.out.val : f \in {g \in s3 : g.phase = "done"}}

\* ------------------------------------------------------------------ state
VARIABLES
    dests,       \* table destinations: id -> row
    aliases,     \* table aliases: id -> row
    store_error, \* the error a query of the store fails with at present
    cache,       \* slug_found_cache: slug -> Option<SlugFoundSummary>
    inflight,    \* init futures being evaluated: leading request -> [slug, f]
    req,         \* the root handler of each request
    queue,       \* the page hit channel
    consumer,    \* the page hit consumer task: [pc, hit]
    is_shutting, \* DatabaseShutdownHandler.is_shutting_token
    is_shutdown_completed, \* DatabaseShutdownHandler.is_shutdown_completed_token
    hits,        \* table hits: the requests whose hit was inserted
    failed,      \* hits whose insert failed and was logged
    atShutdown,  \* history: the records in the channel when shutdown() was called
    adm,         \* the administrative request being handled
    opsLeft,     \* administrative requests still to come
    lastReturn,  \* history: the last administrative request that returned
    admins,      \* the handlers of administrative requests that run concurrently
    users,       \* table users: id -> row
    tokens,      \* the access tokens generate_token has issued
    authReqs,    \* the handlers of the token and change_password requests
    nextUuid,    \* Uuid::new_v4 for session ids: the next unused value
    now,         \* chrono::Utc::now().timestamp(), in scaled units
    lastRes,     \* history: slug -> outcome of its last resolve since the last mutation step
    inv,         \* history: slug -> how its last invalidation met the fetches in flight
    negCreated,  \* history: slug -> created over a negative cache entry, no mutation since
    writtenAt    \* history: request -> the time at which its hit was inserted

vars == << dests, aliases, store_error, cache, inflight, req, queue, consumer, is_shutting,
           is_shutdown_completed, hits, failed, atShutdown, adm, opsLeft,
           lastReturn, admins, users, tokens, authReqs, nextUuid, now,
           lastRes, inv, negCreated, writtenAt >>

storeVars == << dests, aliases, store_error >>
pipeVars == << queue, consumer, is_shutting, is_shutdown_completed, hits, failed,
              atShutdown >>
authVars == << users, tokens, authReqs, nextUuid, now >>
concVars == << admins, authVars >>
admVars == << adm, opsLeft, lastReturn, concVars >>
histVars == << lastRes, inv, negCreated, writtenAt >>

\* --------------------------------------------------- users and tokens
\* generate_token: a token is valid for an hour; the model scales the hour
\* to two units of its clock
expires_in == 2

\* jsonwebtoken Validation::default(): 60 seconds of leeway on exp, scaled
\* to one unit
leeway == 1

Passwords == {"verysecret", "someotherpassword", "wrongpassword"}

\* password::hash: the Argon2 hash string of the password
hash(password) == << "$argon2id$", password >>

\* password::verify: the hash is one of the password
verify(hashed_password, password) == hashed_password = hash(password)

User(id, session_id, hashed_password) ==
    [id |-> id, session_id |-> session_id, hashed_password |-> hashed_password,
     deleted |-> FALSE]

\* the claims of an access token; the token is their signed encoding
Claims(sub, exp, jti) == [sub |-> sub, exp |-> exp, jti |-> jti]

\* generate_token at the time t
generate_token(user, t) == Claims(user.id, t + expires_in, user.session_id)

\* jsonwebtoken::decode of a token this server signed, at the time t: the
\* exp claim is validated
decode(token, t) == token.exp > t - leeway

\* Database::find_single_user_by_id: respects the soft-delete
find_single_user_by_id(U, id) ==
    IF id \in DOMAIN U /\ ~U[id].deleted THEN Some(U[id]) ELSE None

\* the outcomes of the CurrentUser extractor; every rejection is
\* Error::forbidden
Authenticated(user) == [ok |-> TRUE, user |-> Some(user), status_code |-> 0, message |-> ""]
Forbidden(message) == [ok |-> FALSE, user |-> None, status_code |-> 403, message |-> message]

\* impl FromRequestParts for CurrentUser, with the bearer token of the
\* request, at the time t
from_request_parts(token, U, t) ==
    IF ~decode(token, t) THEN Forbidden("Invalid token")
    ELSE LET user == find_single_user_by_id(U, token.sub)
         IN  IF ~IsSome(user) THEN Forbidden("Could not find user")
             ELSE IF token.jti # Unwrap(user).session_id THEN Forbidden("Token expired")
             ELSE Authenticated(Unwrap(user))

\* a handler of the users surface before its request
IdleAuth ==
    [pc |-> "idle", op |-> "", bearer |-> None, user |-> None, values |-> None,
     updated |-> None, status |-> 0, token |-> None, tokensAtCommit |-> {}]

\* one user with the password of the tests, and the token of an earlier
\* login
InitAuth ==
    /\ users = 1 :> User(1, 0, hash("verysecret"))
    /\ tokens = {generate_token(User(1, 0, hash("verysecret")), 0)}
    /\ authReqs = [h \in AdminHandlers |-> IdleAuth]
    /\ nextUuid = 1
    /\ now = 0

IdleRequest ==
    [pc |-> "idle", path |-> << >>, query |-> << >>,
     slug |-> "", res |-> OkRes(None), servedBy |-> 0, body |-> None,
     led |-> FALSE, conc |-> {}, status |-> 0, location |-> None,
     sched |-> "none", sawFull |-> FALSE, when |-> 0,
     afterNone |-> FALSE, c2 |-> "na", c7 |-> FALSE]

IdleAdmin ==
    [pc |-> "idle", op |-> "", slug |-> "", id |-> 0, aid |-> 0,
     form |-> None, f |-> FetchInit, snap |-> None,
     changed |-> {}, cachedAtCommit |-> {}]

NoReturn ==
    [op |-> "", ok |-> FALSE, status |-> 0, id |-> 0, slug |-> "",
     changed |-> {}, invalidated |-> {}, cachedAtCommit |-> {}]

\* a handler of the concurrent administrative surface before its request
IdleHandler ==
    [pc |-> "idle", op |-> "", slug |-> "", id |-> 0, form |-> None,
     f |-> FetchInit, snap |-> None, status |-> 0,
     permAtStart |-> FALSE, heldAtStart |-> FALSE]

\* the rows a destination and its alias can be left in by earlier runs of
\* the program: the tables outlive the process, the cache and the channel
\* start empty
InitDestinations ==
    {Destination(1, "a", Url("u1", None), FALSE, FALSE),
     Destination(1, "a", Url("u1", None), TRUE, FALSE),
     [Destination(1, "a", Url("u1", None), FALSE, FALSE) EXCEPT !.deleted = TRUE]}

InitAliases ==
    {Alias(1, "b", 1), [Alias(1, "b", 1) EXCEPT !.deleted = TRUE]}

InitStores ==
    {[d |-> << >>, a |-> << >>]} \cup
    {[d |-> 1 :> row, a |-> << >>] : row \in InitDestinations} \cup
    {[d |-> 1 :> row, a |-> 1 :> al] : row \in InitDestinations, al \in InitAliases}

Init ==
    /\ \E st \in InitStores : dests = st.d /\ aliases = st.a
    /\ store_error = "pool timed out"
    /\ cache = << >>
    /\ inflight = << >>
    /\ req = [r \in Requests |-> IdleRequest]
    /\ queue = << >>
    /\ consumer = [pc |-> "select", hit |-> None]
    /\ is_shutting = FALSE
    /\ is_shutdown_completed = FALSE
    /\ hits = {}
    /\ failed = {}
    /\ atShutdown = {}
    /\ adm = IdleAdmin
    /\ opsLeft = MaxAdminOps
    /\ lastReturn = NoReturn
    /\ admins = [h \in AdminHandlers |-> IdleHandler]
    /\ InitAuth
    /\ lastRes = [s \in Slugs |-> "unknown"]
    /\ inv = [s \in Slugs |-> "none"]
    /\ negCreated = [s \in Slugs |-> FALSE]
    /\ writtenAt = [r \in Requests |-> None]

\* ------------------------------------------------------- moka future cache
Remove(fn, k) == [x \in DOMAIN fn \ {k} |-> fn[x]]

\* a cache that stores summaries only, and no negative entry
CacheInsert_SummariesOnly(c, s, v) ==
    IF IsSome(v) THEN [x \in DOMAIN c \cup {s} |-> IF x = s THEN v ELSE c[x]] ELSE c

\* Cache::insert, called by try_get_with when the init future returned Ok
CacheInsert(c, s, v) == [x \in DOMAIN c \cup {s} |-> IF x = s THEN v ELSE c[x]]

\* an invalidation that discards nothing
Invalidate_Nothing(c, s) == c

\* an invalidation that discards summaries and keeps a negative entry
Invalidate_KeepsNegative(c, s) ==
    IF s \in DOMAIN c /\ c[s] = None THEN c ELSE Remove(c, s)

\* Cache::invalidate: discards any cached value for the key
Invalidate(c, s) == Remove(c, s)

InflightSlugs == {inflight[l].slug : l \in DOMAIN inflight}
Leaders(s) == {l \in DOMAIN inflight : inflight[l].slug = s}

\* a read-through cache without coalescing: every miss evaluates its own
\* init future
TryGetWith_NoCoalescing(c, leaders) ==
    IF c # None THEN "hit" ELSE "lead"

\* Cache::try_get_with_by_ref: a cached value is returned; otherwise the call
\* joins the init future in flight for the key, or evaluates its own
TryGetWith(c, leaders) ==
    IF c # None THEN "hit" ELSE IF leaders # {} THEN "join" ELSE "lead"

ResultClass(result) ==
    IF ~result.ok THEN "err" ELSE IF IsSome(result.val) THEN "some" ELSE "none"

\* a resolve of slug s returns result to the request rq
Resolved(rq, s, result) ==
    [rq EXCEPT !.pc = "resolved", !.res = result,
               !.c2 = IF inv[s] = "clean" /\ result.ok
                      THEN IF result.val \in Committed(dests, aliases, s)
                           THEN "fresh" ELSE "stale"
                      ELSE "na",
               !.c7 = negCreated[s]]

\* root, up to the await of fetch_cached_destination_by_slug
RootStart(r, s) ==
    /\ req[r].pc = "idle"
    /\ \A q \in Requests : q < r => req[q].pc # "idle"
    /\ LET how == TryGetWith(IF s \in DOMAIN cache THEN Some(cache[s]) ELSE None,
                             Leaders(s))
           rq == [req[r] EXCEPT
                    !.slug = s,
                    !.afterNone = (lastRes[s] = "none"),
                    !.conc = IF s \in DOMAIN cache THEN {}
                             ELSE {q \in Requests : /\ req[q].pc \in {"fetching", "waiting"}
                                                   /\ req[q].slug = s}]
       IN  CASE how = "hit" ->
                  /\ req' = [req EXCEPT ![r] = Resolved(rq, s, OkRes(cache[s]))]
                  /\ lastRes' = [lastRes EXCEPT ![s] = ResultClass(OkRes(cache[s]))]
                  /\ UNCHANGED inflight
             [] how = "join" ->
                  /\ \E l \in Leaders(s) :
                        req' = [req EXCEPT ![r] = [rq EXCEPT !.pc = "waiting", !.servedBy = l]]
                  /\ UNCHANGED << inflight, lastRes >>
             [] how = "lead" ->
                  /\ req' = [req EXCEPT ![r] = [rq EXCEPT !.pc = "fetching", !.servedBy = r,
                                                          !.led = TRUE]]
                  /\ inflight' = inflight @@ (r :> [slug |-> s, f |-> FetchInit])
                  /\ UNCHANGED lastRes
    /\ UNCHANGED << storeVars, cache, pipeVars, admVars, inv, negCreated, writtenAt >>

\* one await of fetch_destination_by_slug: the read answers, or it fails
\* and the ? operator returns the connection error, made of what the store
\* reports at that time
fetch_destination_by_slug(f, D, A, s) ==
    FetchAfterRead(f, D, A, s) \cup
    (IF f.phase \in {"dest", "alias", "destid"}
     THEN {FetchDone(ErrRes(connection_error(store_error)))} ELSE {})

\* the init future of the leading request does one store read
FetchStep(l) ==
    /\ l \in DOMAIN inflight
    /\ \E f \in fetch_destination_by_slug(inflight[l].f, dests, aliases, inflight[l].slug) :
          inflight' = [inflight EXCEPT ![l].f = f]
    /\ UNCHANGED << storeVars, cache, req, pipeVars, admVars, histVars >>

\* a cache that remembers a failed fetch as 'no summary'
FetchFinish_CachesFailure(l) ==
    /\ l \in DOMAIN inflight
    /\ inflight[l].f.phase = "done"
    /\ LET s == inflight[l].slug
           result == inflight[l].f.out
       IN  /\ cache' = CacheInsert(cache, s, IF result.ok THEN result.val ELSE None)
           /\ req' = [q \in Requests |->
                        IF req[q].servedBy = l /\ req[q].pc \in {"fetching", "waiting"}
                        THEN Resolved(req[q], s, result) ELSE req[q]]
           /\ lastRes' = [lastRes EXCEPT ![s] = ResultClass(result)]
    /\ inflight' = Remove(inflight, l)
    /\ UNCHANGED << storeVars, pipeVars, admVars, inv, negCreated, writtenAt >>

\* the init future has returned: an Ok value is inserted, and the leader and
\* every call that joined it receive the same result
FetchFinish(l) ==
    /\ l \in DOMAIN inflight
    /\ inflight[l].f.phase = "done"
    /\ LET s == inflight[l].slug
           result == inflight[l].f.out
       IN  /\ cache' = IF result.ok THEN CacheInsert(cache, s, result.val) ELSE cache
           /\ req' = [q \in Requests |->
                        IF req[q].servedBy = l /\ req[q].pc \in {"fetching", "waiting"}
                        THEN Resolved(req[q], s, result) ELSE req[q]]
           /\ lastRes' = [lastRes EXCEPT ![s] = ResultClass(result)]
    /\ inflight' = Remove(inflight, l)
    /\ UNCHANGED << storeVars, pipeVars, admVars, inv, negCreated, writtenAt >>

\* ---------------------------------------------------- page hit collector
\* a record that leaves the alias out
PageHitInformation_NoAlias(r, summary) ==
    [req |-> r, destination_id |-> summary.destination.id,
     alias_id |-> None,
     when |-> req[r].when]

\* its `when` is the Utc::now() of the call of schedule_save_hit
PageHitInformation(r, summary) ==
    [req |-> r, destination_id |-> summary.destination.id,
     alias_id |-> IF IsSome(summary.alias) THEN Some(Unwrap(summary.alias).id) ELSE None,
     when |-> req[r].when]

\* a DateTime is a count of nanoseconds; a second has this many of them
\* (scaled)
NanosPerSecond == 2

\* DateTime::timestamp: the whole seconds
timestamp(t) == t \div NanosPerSecond

\* DateTime::nanosecond: the nanoseconds since the last whole second
nanosecond(t) == t % NanosPerSecond

\* NaiveDateTime::from_timestamp
from_timestamp(secs, nsecs) == secs * NanosPerSecond + nsecs

\* an INSERT that leaves created_at to the column default, the time of the
\* write
save_hit_Default(page_hit) == [page_hit EXCEPT !.when = now]

\* the row Database::save_hit inserts: created_at is built from the record
save_hit(page_hit) ==
    [page_hit EXCEPT !.when = from_timestamp(timestamp(page_hit.when),
                                             nanosecond(page_hit.when))]

\* the receiver half is dropped when the consumer task ends
ReceiverDropped == consumer.pc = "stopped"

\* permits of the channel in use: queued records and reserved slots
PermitsInUse == Len(queue) + Cardinality({q \in Requests : req[q].pc = "push"})

\* an open channel none of whose permits is free
ChannelFull == ~ReceiverDropped /\ PermitsInUse >= PAGE_HIT_COLLECTOR_CHANNEL_CAPACITY

\* try_send in the place of send: a full channel is an error at once
Reserve_TrySend(closed, used) ==
    IF closed \/ used >= PAGE_HIT_COLLECTOR_CHANNEL_CAPACITY THEN "closed" ELSE "permit"

\* the send of an unbounded channel: an open channel always takes the record
Reserve_Unbounded(closed, used) ==
    IF closed THEN "closed" ELSE "permit"

\* mpsc::Sender::send waits for a permit: it fails only on a closed channel
Reserve(closed, used) ==
    IF closed THEN "closed"
    ELSE IF used < PAGE_HIT_COLLECTOR_CHANNEL_CAPACITY THEN "permit"
    ELSE "wait"

\* ----------------------------------------------------------------- root
\* the for loop of root: the incoming pairs are appended in their order, a
\* pair whose name is in names is skipped
RECURSIVE AppendIncoming(_, _, _)
\* a loop that also skips a name it has appended before
AppendIncoming_OncePerName(pairs, incoming, names) ==
    IF incoming = << >> THEN pairs
    ELSE LET p == Head(incoming)
         IN  IF p.name \in names
             THEN AppendIncoming(pairs, Tail(incoming), names)
             ELSE AppendIncoming(Append(pairs, p), Tail(incoming), names \cup {p.name})

AppendIncoming(pairs, incoming, names) ==
    IF incoming = << >> THEN pairs
    ELSE LET p == Head(incoming)
         IN  IF p.name \in names
             THEN AppendIncoming(pairs, Tail(incoming), names)
             ELSE AppendIncoming(Append(pairs, p), Tail(incoming), names)

\* the forwarding block of root: the names of the location's own pairs are
\* collected first; query_pairs_mut gives the URL a query when it has none,
\* and the pairs are appended behind the ones it has
ForwardQuery(url, incoming) ==
    LET location_query_param_names ==
            {query_pairs(url)[i].name : i \in 1..Len(query_pairs(url))}
    IN  Url(url.base,
            Some(AppendIncoming(query_pairs(url), incoming, location_query_param_names)))

\* a handler that forwards for every destination
RedirectTarget_AlwaysForwards(destination, incoming) ==
    ForwardQuery(destination.url, incoming)

\* location_url of root: path_and_query() of a request is always present, so
\* the flag alone decides
RedirectTarget(destination, incoming) ==
    IF destination.forward_query_parameters
    THEN ForwardQuery(destination.url, incoming)
    ELSE destination.url

\* a handler that redirects with Redirect::to, which is 303 See Other
RootOutcome_SeeOther(summary, incoming) ==
    IF is_deleted(summary)
    THEN [status |-> 410, location |-> None]
    ELSE [status |-> 303,
          location |-> Some(RedirectTarget(summary.destination, incoming))]

\* root once the hit call returned Ok, for a request with the incoming pairs:
\* 410 Gone, or Redirect::permanent / Redirect::temporary
RootOutcome(summary, incoming) ==
    IF is_deleted(summary)
    THEN [status |-> 410, location |-> None]
    ELSE [status |-> IF summary.destination.is_permanent THEN 308 ELSE 307,
          location |-> Some(RedirectTarget(summary.destination, incoming))]

\* the outcome for a request without a query string
RedirectOutcome(summary) == RootOutcome(summary, << >>)

\* a missing slug answered as a deleted one
NotFoundOutcome_Gone == [status |-> 410, location |-> None]

\* the else branch of root: 404 with the not-found page
NotFoundOutcome == [status |-> 404, location |-> None]

\* render_error_template: the error page with {error} replaced by the text
render_error_template(error) == Some([template |-> "pages/500.html", error |-> error])

\* internal_error: 500 and the error page with err.to_string()
internal_error(rq, err) ==
    [rq EXCEPT !.pc = "done", !.status = 500, !.location = None,
               !.body = render_error_template(err)]

Answer(rq, status, location) ==
    [rq EXCEPT !.pc = "done", !.status = status, !.location = location]

\* what root does with Err(err) of the hit call: map_err(internal_error)?
OnHitError(rq) == internal_error([rq EXCEPT !.sched = "err"], PageHitSchedulingError)

\* root after the resolve: map_err(internal_error)?, the 404 branch, or the
\* call that hands the hit to the channel
RootAfterResolve(r) ==
    /\ req[r].pc = "resolved"
    /\ LET rq == req[r]
       IN  IF ~rq.res.ok
           THEN req' = [req EXCEPT ![r] = internal_error(rq, rq.res.err)]
           ELSE IF ~IsSome(rq.res.val)
           THEN req' = [req EXCEPT ![r] =
                          Answer(rq, NotFoundOutcome.status, NotFoundOutcome.location)]
           ELSE LET how == Reserve(ReceiverDropped, PermitsInUse)
                    me == [rq EXCEPT !.sawFull = ChannelFull, !.when = now]
                IN  req' = [req EXCEPT ![r] =
                        CASE how = "closed" -> OnHitError(me)
                          [] how = "permit" -> [me EXCEPT !.pc = "push"]
                          [] how = "wait"   -> [me EXCEPT !.pc = "blocked"]]
    /\ UNCHANGED << storeVars, cache, inflight, pipeVars, admVars, histVars >>

\* a send that waited for capacity is woken: it got a permit, or the channel
\* was closed
RootSendWake(r) ==
    /\ req[r].pc = "blocked"
    /\ LET how == Reserve(ReceiverDropped, PermitsInUse)
       IN  /\ how # "wait"
           /\ req' = [req EXCEPT ![r] =
                        IF how = "closed" THEN OnHitError(req[r])
                        ELSE [req[r] EXCEPT !.pc = "push"]]
    /\ UNCHANGED << storeVars, cache, inflight, pipeVars, admVars, histVars >>

\* a handler that inserts the hit row itself, as Database::save_hit does
RootPush_SavesInline(r) ==
    /\ req[r].pc = "push"
    /\ hits' = hits \cup {PageHitInformation(r, Unwrap(req[r].res.val))}
    /\ req' = [req EXCEPT ![r] = [@ EXCEPT !.pc = "sent", !.sched = "ok"]]
    /\ UNCHANGED << storeVars, cache, inflight, queue, consumer, is_shutting,
                    is_shutdown_completed, failed, atShutdown, admVars, histVars >>

\* the permit sends the record and send returns Ok; a record sent after the
\* receiver was dropped is never received
RootPush(r) ==
    /\ req[r].pc = "push"
    /\ queue' = IF ReceiverDropped THEN queue
                ELSE Append(queue, PageHitInformation(r, Unwrap(req[r].res.val)))
    /\ req' = [req EXCEPT ![r] = [@ EXCEPT !.pc = "sent", !.sched = "ok"]]
    /\ UNCHANGED << storeVars, cache, inflight, consumer, is_shutting,
                    is_shutdown_completed, hits, failed, atShutdown, admVars,
                    histVars >>

\* root after the hit call returned Ok: 410 for a deleted summary, else the
\* redirect
RootRespond(r) ==
    /\ req[r].pc = "sent"
    /\ LET out == RootOutcome(Unwrap(req[r].res.val), req[r].query)
       IN  req' = [req EXCEPT ![r] = Answer(req[r], out.status, out.location)]
    /\ UNCHANGED << storeVars, cache, inflight, pipeVars, admVars, histVars >>

\* ------------------------------------------------- the consumer task loop
\* The select of the loop polls its branches in the order written (biased):
\* first page_hit_receiver.recv(), then is_shutting_token.cancelled(). The
\* two polls are separate steps of the task: handlers and shutdown() run on
\* other threads of the runtime and can act between them.

\* a task that takes the receiver only and no clone of the Database
Senders_NoTaskClone ==
    {<< "Extension", r >> : r \in {q \in Requests : req[q].pc \notin {"idle", "done"}}}

\* the holders of a page_hit_sender that are alive for certain: database_,
\* the clone moved into the consumer task, until the task ends, and the
\* Extension<Database> of each request that runs. The Database of the
\* router is dropped with the router, at any time no request runs
Senders ==
    (IF consumer.pc # "stopped" THEN {<< "database_", 0 >>} ELSE {}) \cup
    {<< "Extension", r >> : r \in {q \in Requests : req[q].pc \notin {"idle", "done"}}}

\* what a poll of page_hit_receiver.recv() can return: a record while the
\* channel holds one; on an empty channel None once every sender is dropped,
\* and pending while one is held
recv(q, senders) ==
    IF q # << >> THEN {"some"}
    ELSE IF senders = {} THEN {"pending", "closed"}
    ELSE {"pending"}

\* the loop is at its select, for the first time or again after the branch
\* of a closed channel
AtSelect == consumer.pc \in {"select", "closed"}

\* first branch: page_hit_receiver.recv() has a record, save_hit is called
ConsumerRecv ==
    /\ AtSelect
    /\ "some" \in recv(queue, Senders)
    /\ consumer' = [pc |-> "saving", hit |-> Some(Head(queue))]
    /\ queue' = Tail(queue)
    /\ UNCHANGED << storeVars, cache, inflight, req, is_shutting,
                    is_shutdown_completed, hits, failed, atShutdown, admVars,
                    histVars >>

\* first branch: page_hit_receiver.recv() finds the channel empty. It is
\* pending and the select goes on to its second branch; on a closed channel
\* it returns None, the warning is logged and the loop comes back to the
\* select
ConsumerRecvPending ==
    /\ AtSelect
    /\ \E polled \in recv(queue, Senders) \ {"some"} :
          consumer' = [pc |-> IF polled = "closed" THEN "closed" ELSE "polled",
                       hit |-> None]
    /\ UNCHANGED << storeVars, cache, inflight, req, queue, is_shutting,
                    is_shutdown_completed, hits, failed, atShutdown, admVars,
                    histVars >>

\* a consumer that sends the record of a failed save_hit to the channel again
SaveHit_Requeues(ok) ==
    /\ consumer.pc = "saving"
    /\ IF ok THEN /\ hits' = hits \cup {save_hit(Unwrap(consumer.hit))}
                    /\ writtenAt' = [writtenAt EXCEPT ![Unwrap(consumer.hit).req] = Some(now)]
                    /\ UNCHANGED << failed, queue >>
                ELSE /\ failed' = failed \cup {Unwrap(consumer.hit)}
                     /\ queue' = Append(queue, Unwrap(consumer.hit))
                     /\ UNCHANGED << hits, writtenAt >>
    /\ consumer' = [pc |-> "select", hit |-> None]
    /\ UNCHANGED << storeVars, cache, inflight, req, is_shutting,
                    is_shutdown_completed, atShutdown, admVars, lastRes, inv,
                    negCreated >>

\* Database::save_hit returns: the row is inserted, or the error is logged
SaveHit(ok) ==
    /\ consumer.pc = "saving"
    /\ IF ok THEN /\ hits' = hits \cup {save_hit(Unwrap(consumer.hit))}
                    /\ writtenAt' = [writtenAt EXCEPT ![Unwrap(consumer.hit).req] = Some(now)]
                    /\ UNCHANGED failed
                ELSE failed' = failed \cup {Unwrap(consumer.hit)} /\ UNCHANGED << hits, writtenAt >>
    /\ consumer' = [pc |-> "select", hit |-> None]
    /\ UNCHANGED << storeVars, cache, inflight, req, queue, is_shutting,
                    is_shutdown_completed, atShutdown, admVars, lastRes, inv,
                    negCreated >>

\* a second branch that completes without waiting for cancelled()
ConsumerCancelled_Unasked ==
    /\ consumer.pc = "polled"
    /\ is_shutdown_completed' = TRUE
    /\ consumer' = [pc |-> "stopped", hit |-> None]
    /\ UNCHANGED << storeVars, cache, inflight, req, queue, is_shutting,
                    hits, failed, atShutdown, admVars, histVars >>

\* a second branch that breaks without complete()
ConsumerCancelled_NoComplete ==
    /\ consumer.pc = "polled"
    /\ is_shutting
    /\ consumer' = [pc |-> "stopped", hit |-> None]
    /\ UNCHANGED << storeVars, cache, inflight, req, queue, is_shutting,
                    is_shutdown_completed, hits, failed, atShutdown, admVars,
                    histVars >>

\* second branch: cancelled() is ready; complete() and break. The receiver
\* is dropped with whatever the channel holds by now
ConsumerCancelled ==
    /\ consumer.pc = "polled"
    /\ is_shutting
    /\ is_shutdown_completed' = TRUE
    /\ consumer' = [pc |-> "stopped", hit |-> None]
    /\ UNCHANGED << storeVars, cache, inflight, req, queue, is_shutting,
                    hits, failed, atShutdown, admVars, histVars >>

\* both branches were pending and the task slept: a record sent or the
\* cancellation wakes it, and the select is polled again from its first
\* branch
ConsumerWake ==
    /\ consumer.pc = "polled"
    /\ queue # << >> \/ is_shutting
    /\ consumer' = [pc |-> "select", hit |-> None]
    /\ UNCHANGED << storeVars, cache, inflight, req, queue, is_shutting,
                    is_shutdown_completed, hits, failed, atShutdown, admVars,
                    histVars >>

\* DatabaseShutdownHandler::shutdown
Shutdown ==
    /\ ~is_shutting
    /\ is_shutting' = TRUE
    /\ atShutdown' = {queue[i] : i \in 1..Len(queue)}
    /\ UNCHANGED << storeVars, cache, inflight, req, queue, consumer,
                    is_shutdown_completed, hits, failed, admVars, histVars >>

\* ------------------------------------------- the administrative surface
\* CreateDestinationForm after parse_url and unwrap_or(false)
CreateDestinationForms ==
    {[url |-> Url("u1", None), is_permanent |-> FALSE, forward_query_parameters |-> FALSE],
     [url |-> Url("u1", None), is_permanent |-> TRUE, forward_query_parameters |-> FALSE]}

\* UpdateDestinationForm: every field is optional
UpdateDestinationForms ==
    {[url |-> Some(Url("u2", None)), is_permanent |-> None, forward_query_parameters |-> None],
     [url |-> None, is_permanent |-> Some(TRUE), forward_query_parameters |-> None]}

OrElse(o, x) == IF IsSome(o) THEN Unwrap(o) ELSE x

\* Uuid::new_v4: an id no row has
NewId(ids, used) == CHOOSE i \in ids \ used : \A j \in ids \ used : i <= j

\* the handler returns to its caller
AdminReturn(ok, status, invalidated) ==
    /\ lastReturn' = [op |-> adm.op, ok |-> ok, status |-> status, id |-> adm.id,
                      slug |-> adm.slug, changed |-> adm.changed,
                      invalidated |-> invalidated,
                      cachedAtCommit |-> adm.cachedAtCommit]
    /\ adm' = IdleAdmin

\* api::destinations::create, up to the first await
AdminCreateDestination(s, form) ==
    /\ adm.pc = "idle" /\ opsLeft > 0
    /\ DOMAIN dests # DestIds
    /\ adm' = [IdleAdmin EXCEPT !.pc = "check", !.op = "create_destination",
                                !.slug = s, !.form = Some(form)]
    /\ opsLeft' = opsLeft - 1
    /\ UNCHANGED << storeVars, cache, inflight, req, pipeVars, lastReturn, concVars, histVars >>

\* api::aliases::create, up to the first await
AdminCreateAlias(id, s) ==
    /\ adm.pc = "idle" /\ opsLeft > 0
    /\ DOMAIN aliases # AliasIds
    /\ adm' = [IdleAdmin EXCEPT !.pc = "check", !.op = "create_alias",
                                !.slug = s, !.id = id]
    /\ opsLeft' = opsLeft - 1
    /\ UNCHANGED << storeVars, cache, inflight, req, pipeVars, lastReturn, concVars, histVars >>

\* the uncached fetch_destination_by_slug of both create handlers: one store
\* read, and the decision once the fetch has returned
AdminCheck ==
    /\ adm.pc = "check"
    /\ \E f \in fetch_destination_by_slug(adm.f, dests, aliases, adm.slug) :
          IF f.phase # "done"
          THEN adm' = [adm EXCEPT !.f = f] /\ UNCHANGED lastReturn
          ELSE IF ~f.out.ok THEN AdminReturn(FALSE, 500, {})
          ELSE IF IsSome(f.out.val) THEN AdminReturn(FALSE, 400, {})
          ELSE /\ adm' = [adm EXCEPT !.f = f,
                              !.pc = IF adm.op = "create_alias" THEN "load" ELSE "write"]
               /\ UNCHANGED lastReturn
    /\ UNCHANGED << storeVars, cache, inflight, req, pipeVars, opsLeft, concVars, histVars >>

\* fetch_destination (api::aliases::create) and fetch_alias
\* (api::aliases::delete): both respect the soft-delete
AdminLoad ==
    /\ adm.pc = "load"
    /\ \/ AdminReturn(FALSE, 500, {})
       \/ IF adm.op = "create_alias"
          THEN LET od == find_single_destination_by_id(dests, adm.id)
               IN  IF IsSome(od)
                   THEN adm' = [adm EXCEPT !.pc = "write", !.snap = od] /\ UNCHANGED lastReturn
                   ELSE AdminReturn(FALSE, 404, {})
          ELSE LET oa == find_single_alias_by_id(aliases, adm.id, adm.aid)
               IN  IF IsSome(oa)
                   THEN /\ adm' = [adm EXCEPT !.pc = "write", !.snap = oa,
                                              !.slug = Unwrap(oa).slug]
                        /\ UNCHANGED lastReturn
                   ELSE AdminReturn(FALSE, 404, {})
    /\ UNCHANGED << storeVars, cache, inflight, req, pipeVars, opsLeft, concVars, histVars >>

\* api::destinations::update and delete, up to the database call:
\* fetch_destination, then the is_permanent guard
AdminMutateDestination(op, id, form) ==
    /\ adm.pc = "idle" /\ opsLeft > 0
    /\ opsLeft' = opsLeft - 1
    /\ LET od == find_single_destination_by_id(dests, id)
           me == [IdleAdmin EXCEPT !.op = op, !.id = id, !.form = form]
       IN  \/ adm' = IdleAdmin /\ lastReturn' = [NoReturn EXCEPT !.op = op, !.status = 500, !.id = id]
           \/ IF ~IsSome(od)
              THEN adm' = IdleAdmin /\ lastReturn' = [NoReturn EXCEPT !.op = op, !.status = 404, !.id = id]
              ELSE IF Unwrap(od).is_permanent
              THEN adm' = IdleAdmin /\ lastReturn' = [NoReturn EXCEPT !.op = op, !.status = 400, !.id = id]
              ELSE /\ adm' = [me EXCEPT !.pc = "write", !.snap = od, !.slug = Unwrap(od).slug]
                   /\ UNCHANGED lastReturn
    /\ UNCHANGED << storeVars, cache, inflight, req, pipeVars, concVars, histVars >>

AdminUpdateDestination(id, form) == AdminMutateDestination("update_destination", id, Some(form))

AdminDeleteDestination(id) == AdminMutateDestination("delete_destination", id, None)

\* api::aliases::delete, up to fetch_alias
AdminDeleteAlias(id, aid) ==
    /\ adm.pc = "idle" /\ opsLeft > 0
    /\ opsLeft' = opsLeft - 1
    /\ LET od == find_single_destination_by_id(dests, id)
       IN  \/ adm' = IdleAdmin /\ lastReturn' = [NoReturn EXCEPT !.op = "delete_alias", !.status = 500, !.id = id]
           \/ IF ~IsSome(od)
              THEN adm' = IdleAdmin /\ lastReturn' = [NoReturn EXCEPT !.op = "delete_alias", !.status = 404, !.id = id]
              ELSE /\ adm' = [IdleAdmin EXCEPT !.pc = "load", !.op = "delete_alias",
                                               !.id = id, !.aid = aid]
                   /\ UNCHANGED lastReturn
    /\ UNCHANGED << storeVars, cache, inflight, req, pipeVars, concVars, histVars >>

\* a delete_destination that removes the row instead of marking it
DestsAfterWrite_RemovesRow ==
    CASE adm.op = "create_destination" ->
           LET id == NewId(DestIds, DOMAIN dests)
               form == Unwrap(adm.form)
           IN  dests @@ (id :> Destination(id, adm.slug, form.url, form.is_permanent,
                                           form.forward_query_parameters))
      [] adm.op = "update_destination" ->
           LET d == Unwrap(adm.snap)
               form == Unwrap(adm.form)
           IN  [dests EXCEPT ![d.id] =
                  [@ EXCEPT !.url = OrElse(form.url, d.url),
                            !.is_permanent = OrElse(form.is_permanent, d.is_permanent),
                            !.forward_query_parameters =
                                OrElse(form.forward_query_parameters, d.forward_query_parameters)]]
      [] adm.op = "delete_destination" ->
           Remove(dests, Unwrap(adm.snap).id)
      [] OTHER -> dests

\* the durable write of Database::create_destination, update_destination,
\* delete_destination, create_alias and delete_alias, once it has committed
DestsAfterWrite ==
    CASE adm.op = "create_destination" ->
           LET id == NewId(DestIds, DOMAIN dests)
               form == Unwrap(adm.form)
           IN  dests @@ (id :> Destination(id, adm.slug, form.url, form.is_permanent,
                                           form.forward_query_parameters))
      [] adm.op = "update_destination" ->
           LET d == Unwrap(adm.snap)
               form == Unwrap(adm.form)
           IN  [dests EXCEPT ![d.id] =
                  [@ EXCEPT !.url = OrElse(form.url, d.url),
                            !.is_permanent = OrElse(form.is_permanent, d.is_permanent),
                            !.forward_query_parameters =
                                OrElse(form.forward_query_parameters, d.forward_query_parameters)]]
      [] adm.op = "delete_destination" ->
           [dests EXCEPT ![Unwrap(adm.snap).id].deleted = TRUE]
      [] OTHER -> dests

AliasesAfterWrite ==
    CASE adm.op = "create_alias" ->
           LET id == NewId(AliasIds, DOMAIN aliases)
           IN  aliases @@ (id :> Alias(id, adm.slug, Unwrap(adm.snap).id))
      [] adm.op = "delete_alias" ->
           [aliases EXCEPT ![Unwrap(adm.snap).id].deleted = TRUE]
      [] OTHER -> aliases

SuccessStatus(op) ==
    CASE op \in {"create_destination", "create_alias"} -> 201
      [] op = "update_destination" -> 200
      [] OTHER -> 204

\* a write path that invalidates its slug before it returns the error
AdminWrite_InvalidatesOnFailure ==
    /\ adm.pc = "write"
    /\ \/ /\ AdminReturn(FALSE, 500, {})
          /\ cache' = Invalidate(cache, adm.slug)
          /\ UNCHANGED << storeVars, histVars >>
       \/ LET D == DestsAfterWrite
              A == AliasesAfterWrite
              changed == {s \in Slugs : Committed(D, A, s) # Committed(dests, aliases, s)}
          IN  /\ dests' = D
              /\ aliases' = A
              /\ adm' = [adm EXCEPT !.pc = "invalidate", !.changed = changed,
                                    !.cachedAtCommit = DOMAIN cache]
              /\ lastRes' = [s \in Slugs |-> "unknown"]
              /\ inv' = [s \in Slugs |-> IF s \in changed THEN "none" ELSE inv[s]]
              /\ negCreated' = [s \in Slugs |-> IF s \in changed THEN FALSE ELSE negCreated[s]]
              /\ UNCHANGED << lastReturn, store_error, cache >>
    /\ UNCHANGED << inflight, req, pipeVars, opsLeft, concVars, writtenAt >>

\* the query of the write path is awaited: map_err(connection_error)? returns
\* the error, or the write has committed
AdminWrite ==
    /\ adm.pc = "write"
    /\ \/ /\ AdminReturn(FALSE, 500, {})
          /\ UNCHANGED << storeVars, histVars >>
       \/ LET D == DestsAfterWrite
              A == AliasesAfterWrite
              changed == {s \in Slugs : Committed(D, A, s) # Committed(dests, aliases, s)}
          IN  /\ dests' = D
              /\ aliases' = A
              /\ adm' = [adm EXCEPT !.pc = "invalidate", !.changed = changed,
                                    !.cachedAtCommit = DOMAIN cache]
              /\ lastRes' = [s \in Slugs |-> "unknown"]
              /\ inv' = [s \in Slugs |-> IF s \in changed THEN "none" ELSE inv[s]]
              /\ negCreated' = [s \in Slugs |-> IF s \in changed THEN FALSE ELSE negCreated[s]]
              /\ UNCHANGED << lastReturn, store_error >>
    /\ UNCHANGED << cache, inflight, req, pipeVars, opsLeft, concVars, writtenAt >>

\* self.slug_found_cache.invalidate(slug).await, then Ok(..) to the caller
AdminInvalidate ==
    /\ adm.pc = "invalidate"
    /\ cache' = Invalidate(cache, adm.slug)
    /\ AdminReturn(TRUE, SuccessStatus(adm.op), {adm.slug})
    /\ lastRes' = [s \in Slugs |-> "unknown"]
    /\ inv' = [inv EXCEPT ![adm.slug] =
                 IF adm.slug \in InflightSlugs THEN "racy" ELSE "clean"]
    /\ negCreated' = [negCreated EXCEPT ![adm.slug] =
                        /\ adm.op \in {"create_destination", "create_alias"}
                        /\ adm.slug \in DOMAIN cache
                        /\ cache[adm.slug] = None]
    /\ UNCHANGED << storeVars, inflight, req, pipeVars, opsLeft, concVars, writtenAt >>

\* ------------------------------------------------------- the specification
Next ==
    \/ \E r \in Requests, s \in Slugs : RootStart(r, s)
    \/ \E l \in Requests : FetchStep(l)
    \/ \E l \in Requests : FetchFinish(l)
    \/ \E r \in Requests : RootAfterResolve(r)
    \/ \E r \in Requests : RootSendWake(r)
    \/ \E r \in Requests : RootPush(r)
    \/ \E r \in Requests : RootRespond(r)
    \/ ConsumerRecv
    \/ ConsumerRecvPending
    \/ SaveHit(TRUE)
    \/ SaveHit(FALSE)
    \/ ConsumerCancelled
    \/ ConsumerWake
    \/ Shutdown
    \/ \E s \in Slugs, form \in CreateDestinationForms : AdminCreateDestination(s, form)
    \/ \E id \in DestIds, s \in Slugs : AdminCreateAlias(id, s)
    \/ \E id \in DestIds, form \in UpdateDestinationForms : AdminUpdateDestination(id, form)
    \/ \E id \in DestIds : AdminDeleteDestination(id)
    \/ \E id \in DestIds, aid \in AliasIds : AdminDeleteAlias(id, aid)
    \/ AdminCheck
    \/ AdminLoad
    \/ AdminWrite
    \/ AdminInvalidate

Spec == Init /\ [][Next]_vars

\* the slug cache between its two users: the calls of
\* fetch_cached_destination_by_slug and the administrative write paths
NextCache ==
    \/ \E r \in Requests, s \in Slugs : RootStart(r, s)
    \/ \E l \in Requests : FetchStep(l)
    \/ \E l \in Requests : FetchFinish(l)
    \/ \E s \in Slugs, form \in CreateDestinationForms : AdminCreateDestination(s, form)
    \/ \E id \in DestIds, s \in Slugs : AdminCreateAlias(id, s)
    \/ \E id \in DestIds, form \in UpdateDestinationForms : AdminUpdateDestination(id, form)
    \/ \E id \in DestIds : AdminDeleteDestination(id)
    \/ \E id \in DestIds, aid \in AliasIds : AdminDeleteAlias(id, aid)
    \/ AdminCheck
    \/ AdminLoad
    \/ AdminWrite
    \/ AdminInvalidate

SpecCache == Init /\ [][NextCache]_vars

\* the redirect handler and the page hit collector over tables that no
\* administrative request changes
NextHits ==
    \/ \E r \in Requests, s \in Slugs : RootStart(r, s)
    \/ \E l \in Requests : FetchStep(l)
    \/ \E l \in Requests : FetchFinish(l)
    \/ \E r \in Requests : RootAfterResolve(r)
    \/ \E r \in Requests : RootSendWake(r)
    \/ \E r \in Requests : RootPush(r)
    \/ \E r \in Requests : RootRespond(r)
    \/ ConsumerRecv
    \/ ConsumerRecvPending
    \/ SaveHit(TRUE)
    \/ SaveHit(FALSE)
    \/ ConsumerCancelled
    \/ ConsumerWake
    \/ Shutdown

SpecHits == Init /\ [][NextHits]_vars

\* ------------------------------------------------------ store failures
\* the condition of the connection pool changes: queries that fail from now
\* on fail with another error
StoreErrorChanges(err) ==
    /\ err # store_error
    /\ store_error' = err
    /\ UNCHANGED << dests, aliases, cache, inflight, req, pipeVars, admVars, histVars >>

\* the resolve of the handler over a store whose failures change
NextErrors ==
    \/ \E r \in Requests, s \in Slugs : RootStart(r, s)
    \/ \E l \in Requests : FetchStep(l)
    \/ \E l \in Requests : FetchFinish(l)
    \/ \E r \in Requests : RootAfterResolve(r)
    \/ \E err \in StoreFailures : StoreErrorChanges(err)

SpecErrors == Init /\ [][NextErrors]_vars

\* ------------------------------------------------- query forwarding
\* the destination URLs of the forwarding cases: without a query, with one
\* pair, with two pairs of one name
ForwardUrls ==
    {Url("u1", None),
     Url("u3", Some(<< QueryPair("page", "1") >>)),
     Url("u4", Some(<< QueryPair("page", "1"), QueryPair("page", "9") >>))}

\* the query strings of the incoming request, as query_pairs() yields them
IncomingQueries ==
    {<< >>,
     << QueryPair("foo", "bar") >>,
     << QueryPair("page", "2") >>,
     << QueryPair("page", "2"), QueryPair("page", "3") >>,
     << QueryPair("page", "2"), QueryPair("foo", "bar") >>,
     << QueryPair("foo", "1"), QueryPair("foo", "2") >>,
     << QueryPair("foo", "2"), QueryPair("page", "2"), QueryPair("bar", "1"),
        QueryPair("foo", "1") >>}

\* the requests that carry a query string
ForwardRequests == {1}

\* one destination "a" with one of the URLs, and the query string of the
\* request that is about to arrive
InitForward ==
    /\ \E url \in ForwardUrls, perm \in BOOLEAN, fwd \in BOOLEAN, del \in BOOLEAN :
          dests = 1 :> [Destination(1, "a", url, perm, fwd) EXCEPT !.deleted = del]
    /\ aliases = << >>
    /\ store_error = "pool timed out"
    /\ cache = << >>
    /\ inflight = << >>
    /\ \E q \in IncomingQueries :
          req = [r \in Requests |->
                   IF r \in ForwardRequests THEN [IdleRequest EXCEPT !.query = q]
                   ELSE IdleRequest]
    /\ queue = << >>
    /\ consumer = [pc |-> "select", hit |-> None]
    /\ is_shutting = FALSE
    /\ is_shutdown_completed = FALSE
    /\ hits = {}
    /\ failed = {}
    /\ atShutdown = {}
    /\ adm = IdleAdmin
    /\ opsLeft = MaxAdminOps
    /\ lastReturn = NoReturn
    /\ admins = [h \in AdminHandlers |-> IdleHandler]
    /\ InitAuth
    /\ lastRes = [s \in Slugs |-> "unknown"]
    /\ inv = [s \in Slugs |-> "none"]
    /\ negCreated = [s \in Slugs |-> FALSE]
    /\ writtenAt = [r \in Requests |-> None]

\* one request with a query string, from its arrival to its response
NextForward ==
    \/ \E r \in ForwardRequests, s \in Slugs : RootStart(r, s)
    \/ \E l \in ForwardRequests : FetchStep(l)
    \/ \E l \in ForwardRequests : FetchFinish(l)
    \/ \E r \in ForwardRequests : RootAfterResolve(r)
    \/ \E r \in ForwardRequests : RootPush(r)
    \/ \E r \in ForwardRequests : RootRespond(r)

SpecForward == InitForward /\ [][NextForward]_vars

\* ------------------------------------------------- slug normalisation
\* A str is a sequence of units. A unit is a character ("a", "/", "?", "ae"
\* for U+00E4, "dia" for the combining U+0308) or a percent escape of one
\* byte ("%61"), which in the str is the three characters '%', 'X', 'X'.
Escapes == {"%61", "%2F", "%3F", "%C3", "%A4", "%CC", "%88", "%C0"}

\* the byte a percent escape stands for
EscapeByte(u) ==
    CASE u = "%61" -> "61" [] u = "%2F" -> "2F" [] u = "%3F" -> "3F"
      [] u = "%C3" -> "C3" [] u = "%A4" -> "A4" [] u = "%CC" -> "CC"
      [] u = "%88" -> "88" [] u = "%C0" -> "C0"

\* the UTF-8 bytes of a character
Utf8Bytes(c) ==
    CASE c = "a" -> << "61" >> [] c = "/" -> << "2F" >> [] c = "?" -> << "3F" >>
      [] c = "ae" -> << "C3", "A4" >> [] c = "dia" -> << "CC", "88" >>

\* str::trim_matches('/'): the '/' characters at both ends are removed; an
\* escape is three other characters
RECURSIVE trim_matches(_)
\* a trim of one '/' at each end: strip_prefix and strip_suffix
trim_matches_Once(s) ==
    LET a == IF s # << >> /\ Head(s) = "/" THEN Tail(s) ELSE s
    IN  IF a # << >> /\ a[Len(a)] = "/" THEN SubSeq(a, 1, Len(a) - 1) ELSE a

trim_matches(s) ==
    IF s = << >> THEN s
    ELSE IF Head(s) = "/" THEN trim_matches(Tail(s))
    ELSE IF s[Len(s)] = "/" THEN trim_matches(SubSeq(s, 1, Len(s) - 1))
    ELSE s

\* percent_decode_str: the bytes of the str, every escape replaced by its byte
RECURSIVE percent_decode_str(_)
percent_decode_str(s) ==
    IF s = << >> THEN << >>
    ELSE (IF Head(s) \in Escapes THEN << EscapeByte(Head(s)) >> ELSE Utf8Bytes(Head(s)))
         \o percent_decode_str(Tail(s))

\* PercentDecode::decode_utf8: the characters of the bytes, or the error of
\* bytes that are not UTF-8
RECURSIVE decode_utf8(_)
decode_utf8(bytes) ==
    LET Then(c, n) ==
            LET rest == decode_utf8(SubSeq(bytes, n + 1, Len(bytes)))
            IN  IF rest.ok THEN OkRes(<< c >> \o rest.val) ELSE rest
    IN  IF bytes = << >> THEN OkRes(<< >>)
        ELSE IF bytes[1] = "61" THEN Then("a", 1)
        ELSE IF bytes[1] = "2F" THEN Then("/", 1)
        ELSE IF bytes[1] = "3F" THEN Then("?", 1)
        ELSE IF Len(bytes) >= 2 /\ bytes[1] = "C3" /\ bytes[2] = "A4" THEN Then("ae", 2)
        ELSE IF Len(bytes) >= 2 /\ bytes[1] = "CC" /\ bytes[2] = "88" THEN Then("dia", 2)
        ELSE ErrRes("invalid utf-8 sequence")

\* UnicodeNormalization::nfc: "a" followed by the combining diaeresis
\* composes to U+00E4
RECURSIVE nfc(_)
nfc(s) ==
    IF s = << >> THEN << >>
    ELSE IF Len(s) >= 2 /\ s[1] = "a" /\ s[2] = "dia"
    THEN << "ae" >> \o nfc(SubSeq(s, 3, Len(s)))
    ELSE << Head(s) >> \o nfc(Tail(s))

\* a decoder that answers bytes that are not UTF-8 with the empty slug
url_decode_slug_OrDefault(slug) ==
    LET decoded == decode_utf8(percent_decode_str(slug))
    IN  IF decoded.ok THEN OkRes(nfc(decoded.val)) ELSE OkRes(<< >>)

\* url_decode_slug: Ok(decoded and normalised slug), or the 400 response
url_decode_slug(slug) ==
    LET decoded == decode_utf8(percent_decode_str(slug))
    IN  IF decoded.ok THEN OkRes(nfc(decoded.val))
        ELSE ErrRes("URL contains invalid UTF-8 characters")

\* api::request::parse_slug: trim, reject '?' and '#', normalise; it does
\* not decode percent escapes
parse_slug(slug) ==
    LET trimmed == trim_matches(slug)
    IN  IF \E i \in 1..Len(trimmed) : trimmed[i] \in {"?", "#"}
        THEN ErrRes("Slug can not contain \"?\" or \"#\"")
        ELSE OkRes(nfc(trimmed))

\* the ways a character is written in a request path: as it is, or with
\* every byte percent-encoded; '?' only encoded, it would start the query
EncodeChar(c) ==
    CASE c = "a" -> {<< "a" >>, << "%61" >>}
      [] c = "/" -> {<< "/" >>, << "%2F" >>}
      [] c = "?" -> {<< "%3F" >>}
      [] c = "ae" -> {<< "ae" >>, << "%C3", "%A4" >>}
      [] c = "dia" -> {<< "dia" >>, << "%CC", "%88" >>}

RECURSIVE Encodings(_)
Encodings(text) ==
    IF text = << >> THEN {<< >>}
    ELSE {h \o t : h \in EncodeChar(Head(text)), t \in Encodings(Tail(text))}

\* the request paths that are an encoding of the slug text
PathsOf(text) == {<< "/" >> \o e : e \in Encodings(text)}

\* the slugs a destination is created with, as the form has them
SlugTexts == {<< "ae" >>, << "a", "dia" >>, << "a", "/" >>, << "a", "?" >>}

\* the request paths: every encoding of the slug texts, the root path, and
\* two paths whose escapes are not UTF-8
RequestPaths ==
    UNION {PathsOf(t) : t \in SlugTexts}
    \cup {<< "/" >>, << "/", "%C0" >>, << "/", "a", "%C3" >>}
    \cup {<< "/", "/", "ae", "/", "/" >>}

\* the slugs of the create forms: the slug texts, and one with several
\* separators at both ends
CreateTexts == SlugTexts \cup {<< "/", "/", "ae", "/" >>}

\* the cache keys these paths and slugs lead to
SlugKeys ==
    {url_decode_slug_OrDefault(trim_matches(p)).val : p \in RequestPaths}
    \cup {parse_slug(t).val : t \in {x \in CreateTexts : parse_slug(x).ok}}

\* the requests that carry a path
SlugRequests == {1, 2}

\* the request arrives: root trims and decodes the path, and answers 400 or
\* goes on to fetch_cached_destination_by_slug
RootDecode(r) ==
    /\ req[r].pc = "idle"
    /\ \A q \in Requests : q < r => req[q].pc # "idle"
    /\ LET slug == url_decode_slug(trim_matches(req[r].path))
       IN  IF slug.ok
           THEN RootStart(r, slug.val)
           ELSE /\ req' = [req EXCEPT ![r] = Answer(req[r], 400, None)]
                /\ UNCHANGED << storeVars, cache, inflight, pipeVars, admVars, histVars >>

\* the destinations table after api::destinations::create was called with
\* one of the slug texts (a rejected slug leaves it empty), and the paths of
\* the requests that are about to arrive
InitSlug ==
    /\ \E t \in CreateTexts :
          dests = IF parse_slug(t).ok
                  THEN 1 :> Destination(1, parse_slug(t).val, Url("u1", None), FALSE, FALSE)
                  ELSE << >>
    /\ aliases = << >>
    /\ store_error = "pool timed out"
    /\ cache = << >>
    /\ inflight = << >>
    /\ \E paths \in [SlugRequests -> RequestPaths] :
          req = [r \in Requests |->
                   IF r \in SlugRequests THEN [IdleRequest EXCEPT !.path = paths[r]]
                   ELSE IdleRequest]
    /\ queue = << >>
    /\ consumer = [pc |-> "select", hit |-> None]
    /\ is_shutting = FALSE
    /\ is_shutdown_completed = FALSE
    /\ hits = {}
    /\ failed = {}
    /\ atShutdown = {}
    /\ adm = IdleAdmin
    /\ opsLeft = MaxAdminOps
    /\ lastReturn = NoReturn
    /\ admins = [h \in AdminHandlers |-> IdleHandler]
    /\ InitAuth
    /\ lastRes = [s \in SlugKeys |-> "unknown"]
    /\ inv = [s \in SlugKeys |-> "none"]
    /\ negCreated = [s \in SlugKeys |-> FALSE]
    /\ writtenAt = [r \in Requests |-> None]

\* two requests with paths, from their arrival to their response, and the
\* page hit collector
NextSlug ==
    \/ \E r \in SlugRequests : RootDecode(r)
    \/ \E l \in SlugRequests : FetchStep(l)
    \/ \E l \in SlugRequests : FetchFinish(l)
    \/ \E r \in SlugRequests : RootAfterResolve(r)
    \/ \E r \in SlugRequests : RootSendWake(r)
    \/ \E r \in SlugRequests : RootPush(r)
    \/ \E r \in SlugRequests : RootRespond(r)
    \/ ConsumerRecv
    \/ ConsumerRecvPending
    \/ SaveHit(TRUE)
    \/ ConsumerWake

SpecSlug == InitSlug /\ [][NextSlug]_vars

\* ------------------------------------------------- the redirect endpoint
\* the paths of the wire-level cases: an encoding of the slug of the
\* destination, the root path, and a path whose escape is not UTF-8
WirePaths == {<< "/", "%C3", "%A4" >>, << "/" >>, << "/", "%C0" >>}

\* the query strings of the wire-level cases
WireQueries == {<< >>, << QueryPair("foo", "bar") >>}

\* the requests of the wire-level cases
WireRequests == {1, 2}

\* one destination created with the slug text "a" + combining diaeresis,
\* in every combination of its flags and of its soft-delete, and the
\* requests that are about to arrive
InitWire ==
    /\ \E perm \in BOOLEAN, fwd \in BOOLEAN, del \in BOOLEAN :
          dests = 1 :> [Destination(1, parse_slug(<< "a", "dia" >>).val,
                                    Url("u3", Some(<< QueryPair("page", "1") >>)),
                                    perm, fwd) EXCEPT !.deleted = del]
    /\ aliases = << >>
    /\ store_error = "pool timed out"
    /\ cache = << >>
    /\ inflight = << >>
    /\ \E paths \in [WireRequests -> WirePaths], q \in WireQueries :
          req = [r \in Requests |->
                   IF r \in WireRequests
                   THEN [IdleRequest EXCEPT !.path = paths[r],
                                            !.query = IF r = 1 THEN q ELSE << >>]
                   ELSE IdleRequest]
    /\ queue = << >>
    /\ consumer = [pc |-> "select", hit |-> None]
    /\ is_shutting = FALSE
    /\ is_shutdown_completed = FALSE
    /\ hits = {}
    /\ failed = {}
    /\ atShutdown = {}
    /\ adm = IdleAdmin
    /\ opsLeft = MaxAdminOps
    /\ lastReturn = NoReturn
    /\ admins = [h \in AdminHandlers |-> IdleHandler]
    /\ InitAuth
    /\ lastRes = [s \in SlugKeys |-> "unknown"]
    /\ inv = [s \in SlugKeys |-> "none"]
    /\ negCreated = [s \in SlugKeys |-> FALSE]
    /\ writtenAt = [r \in Requests |-> None]

\* the fallback route from the arrival of a request to its response, with
\* the page hit collector and its shutdown
NextWire ==
    \/ \E r \in WireRequests : RootDecode(r)
    \/ \E l \in WireRequests : FetchStep(l)
    \/ \E l \in WireRequests : FetchFinish(l)
    \/ \E r \in WireRequests : RootAfterResolve(r)
    \/ \E r \in WireRequests : RootSendWake(r)
    \/ \E r \in WireRequests : RootPush(r)
    \/ \E r \in WireRequests : RootRespond(r)
    \/ ConsumerRecv
    \/ ConsumerRecvPending
    \/ SaveHit(TRUE)
    \/ ConsumerCancelled
    \/ ConsumerWake
    \/ Shutdown

SpecWire == InitWire /\ [][NextWire]_vars

\* ------------------------------- concurrent administrative requests
\* Every handler of the administrative surface runs as its own task: its
\* store queries are separate statements with an await before each, and
\* the statements of other handlers run between them.

\* the unique index on the slug column of a table: an INSERT of a slug the
\* table has fails
SlugIndexed(T, s) == \E i \in DOMAIN T : T[i].slug = s

\* Database::create_destination, the row of the INSERT
create_destination(D, slug, form) ==
    LET id == NewId(AdminDestIds, DOMAIN D)
    IN  D @@ (id :> Destination(id, slug, form.url, form.is_permanent,
                                form.forward_query_parameters))

\* Database::update_destination: the three columns are set from the values,
\* or from the destination the handler fetched, WHERE id = destination.id
update_destination(D, destination, values) ==
    [D EXCEPT ![destination.id] =
        [@ EXCEPT !.url = OrElse(values.url, destination.url),
                  !.is_permanent = OrElse(values.is_permanent, destination.is_permanent),
                  !.forward_query_parameters =
                      OrElse(values.forward_query_parameters,
                             destination.forward_query_parameters)]]

\* Database::delete_destination: SET deleted_at WHERE id = destination.id
delete_destination(D, destination) ==
    [D EXCEPT ![destination.id].deleted = TRUE]

\* Database::create_alias, the row of the INSERT
create_alias(A, destination, slug) ==
    LET id == NewId(AdminAliasIds, DOMAIN A)
    IN  A @@ (id :> Alias(id, slug, destination.id))

\* the handler returns its response
HandlerReturn(h, status) ==
    admins' = [admins EXCEPT ![h] = [@ EXCEPT !.pc = "returned", !.status = status]]

\* the slug is held by a row of either table, soft-deleted rows included
SlugHeld(s) == SlugIndexed(dests, s) \/ SlugIndexed(aliases, s)

adminFrame == << store_error, inflight, req, pipeVars, adm, opsLeft, lastReturn, authVars,
                histVars >>

\* api::destinations::create, up to the first await
HandlerCreateDestination(h, s, form) ==
    /\ admins[h].pc = "idle"
    /\ admins' = [admins EXCEPT ![h] =
                    [IdleHandler EXCEPT !.pc = "check", !.op = "create_destination",
                                        !.slug = s, !.form = Some(form),
                                        !.heldAtStart = SlugHeld(s)]]
    /\ UNCHANGED << dests, aliases, cache, adminFrame >>

\* api::aliases::create, up to the first await
HandlerCreateAlias(h, id, s) ==
    /\ admins[h].pc = "idle"
    /\ admins' = [admins EXCEPT ![h] =
                    [IdleHandler EXCEPT !.pc = "check", !.op = "create_alias",
                                        !.slug = s, !.id = id,
                                        !.heldAtStart = SlugHeld(s)]]
    /\ UNCHANGED << dests, aliases, cache, adminFrame >>

\* fetch_destination_by_slug of both create handlers: one store read, and
\* the decision once the fetch has returned
HandlerCheck(h) ==
    /\ admins[h].pc = "check"
    /\ \E f \in fetch_destination_by_slug(admins[h].f, dests, aliases, admins[h].slug) :
          IF f.phase # "done"
          THEN admins' = [admins EXCEPT ![h].f = f]
          ELSE IF ~f.out.ok THEN HandlerReturn(h, 500)
          ELSE IF IsSome(f.out.val) THEN HandlerReturn(h, 400)
          ELSE admins' = [admins EXCEPT ![h] =
                            [@ EXCEPT !.f = f,
                                      !.pc = IF admins[h].op = "create_alias" THEN "load"
                                             ELSE "write"]]
    /\ UNCHANGED << dests, aliases, cache, adminFrame >>

\* fetch_destination of api::aliases::create
HandlerLoad(h) ==
    /\ admins[h].pc = "load"
    /\ \/ HandlerReturn(h, 500)
       \/ LET od == find_single_destination_by_id(dests, admins[h].id)
          IN  IF IsSome(od)
              THEN admins' = [admins EXCEPT ![h] = [@ EXCEPT !.pc = "write", !.snap = od]]
              ELSE HandlerReturn(h, 404)
    /\ UNCHANGED << dests, aliases, cache, adminFrame >>

\* api::destinations::update and delete, up to the database call:
\* fetch_destination, then the is_permanent guard
HandlerMutateDestination(h, op, id, form) ==
    /\ admins[h].pc = "idle"
    /\ LET od == find_single_destination_by_id(dests, id)
           me == [IdleHandler EXCEPT !.op = op, !.id = id, !.form = form,
                                     !.permAtStart = IsSome(od) /\ Unwrap(od).is_permanent]
       IN  admins' = [admins EXCEPT ![h] =
                CASE ~IsSome(od) -> [me EXCEPT !.pc = "returned", !.status = 404]
                  [] IsSome(od) /\ Unwrap(od).is_permanent ->
                        [me EXCEPT !.pc = "returned", !.status = 400]
                  [] OTHER -> [me EXCEPT !.pc = "write", !.snap = od,
                                         !.slug = Unwrap(od).slug]]
    /\ UNCHANGED << dests, aliases, cache, adminFrame >>

\* fetch_destination of update and delete fails
HandlerFetchFails(h, op, id, form) ==
    /\ admins[h].pc = "idle"
    /\ LET od == find_single_destination_by_id(dests, id)
       IN  admins' = [admins EXCEPT ![h] =
                        [IdleHandler EXCEPT !.op = op, !.id = id, !.form = form,
                            !.permAtStart = IsSome(od) /\ Unwrap(od).is_permanent,
                            !.pc = "returned", !.status = 500]]
    /\ UNCHANGED << dests, aliases, cache, adminFrame >>

\* the statement of the write path is awaited: it fails and
\* map_err(connection_error)? returns the error, or it has committed
HandlerWrite(h) ==
    /\ admins[h].pc = "write"
    /\ LET me == admins[h]
           indexed == CASE me.op = "create_destination" -> SlugIndexed(dests, me.slug)
                        [] me.op = "create_alias" -> SlugIndexed(aliases, me.slug)
                        [] OTHER -> FALSE
       IN  \/ HandlerReturn(h, 500) /\ UNCHANGED << dests, aliases >>
           \/ /\ ~indexed
              /\ dests' = CASE me.op = "create_destination" ->
                                 create_destination(dests, me.slug, Unwrap(me.form))
                            [] me.op = "update_destination" ->
                                 update_destination(dests, Unwrap(me.snap), Unwrap(me.form))
                            [] me.op = "delete_destination" ->
                                 delete_destination(dests, Unwrap(me.snap))
                            [] OTHER -> dests
              /\ aliases' = IF me.op = "create_alias"
                            THEN create_alias(aliases, Unwrap(me.snap), me.slug)
                            ELSE aliases
              /\ admins' = [admins EXCEPT ![h].pc = "invalidate"]
    /\ UNCHANGED << cache, adminFrame >>

\* self.slug_found_cache.invalidate(slug).await, then the success response
HandlerInvalidate(h) ==
    /\ admins[h].pc = "invalidate"
    /\ cache' = Invalidate(cache, admins[h].slug)
    /\ HandlerReturn(h, SuccessStatus(admins[h].op))
    /\ UNCHANGED << dests, aliases, adminFrame >>

\* the tables before the requests: empty, or one destination "a" that is
\* live, permanent or soft-deleted
InitAdmin ==
    /\ \E st \in {x \in InitStores : x.a = << >>} : dests = st.d /\ aliases = st.a
    /\ store_error = "pool timed out"
    /\ cache = << >>
    /\ inflight = << >>
    /\ req = [r \in Requests |-> IdleRequest]
    /\ queue = << >>
    /\ consumer = [pc |-> "select", hit |-> None]
    /\ is_shutting = FALSE
    /\ is_shutdown_completed = FALSE
    /\ hits = {}
    /\ failed = {}
    /\ atShutdown = {}
    /\ adm = IdleAdmin
    /\ opsLeft = MaxAdminOps
    /\ lastReturn = NoReturn
    /\ admins = [h \in AdminHandlers |-> IdleHandler]
    /\ InitAuth
    /\ lastRes = [s \in Slugs |-> "unknown"]
    /\ inv = [s \in Slugs |-> "none"]
    /\ negCreated = [s \in Slugs |-> FALSE]
    /\ writtenAt = [r \in Requests |-> None]

\* one request per handler, in every interleaving of their store statements
NextAdmin ==
    \/ \E h \in AdminHandlers, s \in Slugs, form \in CreateDestinationForms :
          HandlerCreateDestination(h, s, form)
    \/ \E h \in AdminHandlers, id \in AdminDestIds, s \in Slugs :
          HandlerCreateAlias(h, id, s)
    \/ \E h \in AdminHandlers, id \in AdminDestIds, form \in UpdateDestinationForms :
          HandlerMutateDestination(h, "update_destination", id, Some(form))
    \/ \E h \in AdminHandlers, id \in AdminDestIds :
          HandlerMutateDestination(h, "delete_destination", id, None)
    \/ \E h \in AdminHandlers, id \in AdminDestIds, form \in UpdateDestinationForms :
          HandlerFetchFails(h, "update_destination", id, Some(form))
    \/ \E h \in AdminHandlers, id \in AdminDestIds :
          HandlerFetchFails(h, "delete_destination", id, None)
    \/ \E h \in AdminHandlers : HandlerCheck(h)
    \/ \E h \in AdminHandlers : HandlerLoad(h)
    \/ \E h \in AdminHandlers : HandlerWrite(h)
    \/ \E h \in AdminHandlers : HandlerInvalidate(h)

SpecAdmin == InitAdmin /\ [][NextAdmin]_vars

\* the concurrent handlers together with one more administrative request,
\* a delete of a destination
NextGone ==
    \/ NextAdmin
    \/ \E id \in DestIds : AdminDeleteDestination(id)
    \/ AdminWrite
    \/ AdminInvalidate

SpecGone == InitAdmin /\ [][NextGone]_vars

\* ------------------------------------------- the token and password requests
authFrame == << storeVars, cache, inflight, req, pipeVars, adm, opsLeft, lastReturn,
                admins, histVars >>

\* the handler returns an error response
AuthReturn(h, me, status) ==
    authReqs' = [authReqs EXCEPT ![h] = [me EXCEPT !.pc = "returned", !.status = status]]

\* api::users::token: the user is read, and the password of the form is
\* verified against the row
TokenStart(h, password) ==
    /\ authReqs[h].pc = "idle"
    /\ LET me == [IdleAuth EXCEPT !.op = "token"]
           user == find_single_user_by_id(users, 1)
       IN  \/ AuthReturn(h, me, 500)
           \/ IF IsSome(user) /\ verify(Unwrap(user).hashed_password, password)
              THEN authReqs' = [authReqs EXCEPT ![h] =
                                  [me EXCEPT !.pc = "generate", !.updated = user]]
              ELSE AuthReturn(h, me, 400)
    /\ UNCHANGED << users, tokens, nextUuid, now, authFrame >>

\* an UPDATE that sets the password and leaves the session as it is
change_password_KeepsSession(U, user, values) ==
    [U EXCEPT ![user.id] = [@ EXCEPT !.hashed_password = values.hashed_password]]

\* Database::change_password: session_id and hashed_password are set WHERE
\* id = user.id
change_password(U, user, values) ==
    [U EXCEPT ![user.id] = [@ EXCEPT !.session_id = values.session_id,
                                     !.hashed_password = values.hashed_password]]

\* api::users::change_password up to the await of the UPDATE: the
\* CurrentUser extractor, verify on the user it returned, and the values
\* with a new session id
ChangePasswordStart(h, bearer, current_password, password) ==
    /\ authReqs[h].pc = "idle"
    /\ LET me == [IdleAuth EXCEPT !.op = "change_password", !.bearer = Some(bearer)]
           current_user == from_request_parts(bearer, users, now)
       IN  IF ~current_user.ok
           THEN AuthReturn(h, me, current_user.status_code) /\ UNCHANGED nextUuid
           ELSE IF ~verify(Unwrap(current_user.user).hashed_password, current_password)
           THEN AuthReturn(h, [me EXCEPT !.user = current_user.user], 400)
                /\ UNCHANGED nextUuid
           ELSE /\ authReqs' = [authReqs EXCEPT ![h] =
                      [me EXCEPT !.pc = "write", !.user = current_user.user,
                                 !.values = Some([session_id |-> nextUuid,
                                                  hashed_password |-> hash(password)])]]
                /\ nextUuid' = nextUuid + 1
    /\ UNCHANGED << users, tokens, now, authFrame >>

\* the UPDATE is awaited: it fails, or it has committed and returned the row
ChangePasswordWrite(h) ==
    /\ authReqs[h].pc = "write"
    /\ LET me == authReqs[h]
           U == change_password(users, Unwrap(me.user), Unwrap(me.values))
       IN  \/ AuthReturn(h, me, 500) /\ UNCHANGED users
           \/ /\ users' = U
              /\ authReqs' = [authReqs EXCEPT ![h] =
                    [me EXCEPT !.pc = "generate", !.updated = Some(U[Unwrap(me.user).id]),
                               !.tokensAtCommit = tokens]]
    /\ UNCHANGED << tokens, nextUuid, now, authFrame >>

\* generate_token for the user of the response, and Success::ok(token)
GenerateToken(h) ==
    /\ authReqs[h].pc = "generate"
    /\ LET token == generate_token(Unwrap(authReqs[h].updated), now)
       IN  /\ tokens' = tokens \cup {token}
           /\ authReqs' = [authReqs EXCEPT ![h] =
                 [@ EXCEPT !.pc = "returned", !.status = 200, !.token = Some(token)]]
    /\ UNCHANGED << users, nextUuid, now, authFrame >>

\* time passes
Tick ==
    /\ now < MaxTime
    /\ now' = now + 1
    /\ UNCHANGED << users, tokens, authReqs, nextUuid, authFrame >>

\* one request per handler: logins and password changes with the tokens
\* issued so far
NextAuth ==
    \/ \E h \in AdminHandlers, password \in Passwords : TokenStart(h, password)
    \/ \E h \in AdminHandlers, bearer \in tokens,
          current_password \in Passwords, password \in {"someotherpassword"} :
            ChangePasswordStart(h, bearer, current_password, password)
    \/ \E h \in AdminHandlers : ChangePasswordWrite(h)
    \/ \E h \in AdminHandlers : GenerateToken(h)
    \/ Tick

\* the users surface over empty tables of destinations and aliases
InitUsers == Init /\ dests = << >>

SpecAuth == InitUsers /\ [][NextAuth]_vars

\* ------------------------------------------------- the time of a page hit
\* one live destination under the slug "a", and a clock
InitWhen ==
    /\ Init
    /\ aliases = << >>
    /\ DOMAIN dests = {1}
    /\ ~dests[1].deleted /\ ~dests[1].is_permanent

\* requests of the slug, the page hit collector, and time passing between
\* any two steps
NextWhen ==
    \/ \E r \in Requests : RootStart(r, "a")
    \/ \E l \in Requests : FetchStep(l)
    \/ \E l \in Requests : FetchFinish(l)
    \/ \E r \in Requests : RootAfterResolve(r)
    \/ \E r \in Requests : RootSendWake(r)
    \/ \E r \in Requests : RootPush(r)
    \/ \E r \in Requests : RootRespond(r)
    \/ ConsumerRecv
    \/ ConsumerRecvPending
    \/ SaveHit(TRUE)
    \/ ConsumerWake
    \/ Tick

SpecWhen == InitWhen /\ [][NextWhen]_vars

\* ------------------------------------------------ the page hit collector
\* one destination under the slug "a", in every combination of its flags
\* and of its soft-delete, and no alias
InitCollector ==
    /\ Init
    /\ aliases = << >>
    /\ DOMAIN dests = {1}

\* requests of its slug and of a slug nothing has, the consumer task with
\* inserts that succeed or fail, and the shutdown
NextCollector ==
    \/ \E r \in Requests, s \in Slugs : RootStart(r, s)
    \/ \E l \in Requests : FetchStep(l)
    \/ \E l \in Requests : FetchFinish(l)
    \/ \E r \in Requests : RootAfterResolve(r)
    \/ \E r \in Requests : RootSendWake(r)
    \/ \E r \in Requests : RootPush(r)
    \/ \E r \in Requests : RootRespond(r)
    \/ ConsumerRecv
    \/ ConsumerRecvPending
    \/ SaveHit(TRUE)
    \/ SaveHit(FALSE)
    \/ ConsumerCancelled
    \/ ConsumerWake
    \/ Shutdown

SpecCollector == InitCollector /\ [][NextCollector]_vars

\* the collector over one live destination, with a consumer task that is
\* scheduled: each poll of its select and each save_hit
\* it awaits comes to an end, and a select that is polled again and again
\* while the channel is empty and the token is cancelled takes its second
\* branch
SpecCollectorLive ==
    /\ InitWhen
    /\ [][NextCollector]_vars
    /\ WF_vars(ConsumerRecv)
    /\ WF_vars(ConsumerRecvPending)
    /\ WF_vars(SaveHit(TRUE) \/ SaveHit(FALSE))
    /\ WF_vars(ConsumerWake)
    /\ SF_vars(ConsumerCancelled)

\* --------------------------------------------- page hits through aliases
\* every initial store that has an alias, live or soft-deleted, of a live or
\* soft-deleted destination
InitAliased ==
    /\ Init
    /\ aliases # << >>

\* requests of the destination's slug, of the alias's slug and of a slug
\* nothing has, and the consumer task with inserts that succeed
NextAliased ==
    \/ \E r \in Requests, s \in Slugs : RootStart(r, s)
    \/ \E l \in Requests : FetchStep(l)
    \/ \E l \in Requests : FetchFinish(l)
    \/ \E r \in Requests : RootAfterResolve(r)
    \/ \E r \in Requests : RootSendWake(r)
    \/ \E r \in Requests : RootPush(r)
    \/ \E r \in Requests : RootRespond(r)
    \/ ConsumerRecv
    \/ ConsumerRecvPending
    \/ SaveHit(TRUE)
    \/ ConsumerWake

SpecAliased == InitAliased /\ [][NextAliased]_vars

\* ------------------------------------------------ the size of the cache
\* Cache::new(DEFAULT_CACHE_MAX_CAPACITY): an insert puts the entry into the
\* map at once; the size policy runs with the pending tasks of the cache,
\* later, and takes an entry out, the new one or an older one, while the map
\* holds more than the capacity
CacheRunPendingTasks ==
    /\ Cardinality(DOMAIN cache) > DEFAULT_CACHE_MAX_CAPACITY
    /\ \E s \in DOMAIN cache : cache' = Remove(cache, s)
    /\ UNCHANGED << storeVars, inflight, req, pipeVars, admVars, histVars >>

\* resolves of the slugs over every initial store, and the size policy
NextBound ==
    \/ \E r \in Requests, s \in Slugs : RootStart(r, s)
    \/ \E l \in Requests : FetchStep(l)
    \/ \E l \in Requests : FetchFinish(l)
    \/ CacheRunPendingTasks

SpecBound == Init /\ [][NextBound]_vars

\* ------------------------------------------------- the resolve of a slug
\* requests of the slugs over every initial store, up to the resolve
NextResolve ==
    \/ \E r \in Requests, s \in Slugs : RootStart(r, s)
    \/ \E l \in Requests : FetchStep(l)
    \/ \E l \in Requests : FetchFinish(l)

SpecResolve == Init /\ [][NextResolve]_vars

TypeOK ==
    /\ DOMAIN dests \subseteq DestIds \cup AdminDestIds
    /\ DOMAIN aliases \subseteq AliasIds \cup AdminAliasIds
    /\ DOMAIN cache \subseteq Slugs
    /\ DOMAIN inflight \subseteq Requests
    /\ Len(queue) <= PAGE_HIT_COLLECTOR_CHANNEL_CAPACITY

\* ----------------------------------------------------------------- claims
HasResolved(r) == req[r].pc \notin {"idle", "fetching", "waiting"}

HasSummary(r) == HasResolved(r) /\ req[r].res.ok /\ IsSome(req[r].res.val)

\* C1: single-flight. Calls of fetch_cached_destination_by_slug for the same
\* slug that started on a miss while another call for it was still being
\* resolved are served by one evaluation of the init future, led by exactly
\* one of them, and all of them receive the identical result, value or error.
C1_SingleFlight ==
    \A r \in Requests : \A q \in req[r].conc :
        /\ ~req[r].led
        /\ req[r].servedBy = req[q].servedBy
        /\ req[req[r].servedBy].led
        /\ Cardinality({x \in {r} \cup req[r].conc : req[x].led}) = 1
        /\ HasResolved(r) <=> HasResolved(q)
        /\ HasResolved(r) => req[r].res = req[q].res

C1_Witness ==
    \E r \in Requests :
        /\ req[r].conc # {}
        /\ HasResolved(r)
        /\ ~req[r].res.ok

\* C2: invalidation freshness. After a write path has committed and its
\* invalidate of the slug has returned with no fetch of that slug in flight,
\* a resolve of the slug that returns a value returns the committed state of
\* the store, as long as no later write changes it.
C2_InvalidationFreshness ==
    \A r \in Requests : req[r].c2 # "stale"

C2_Witness ==
    \E r \in Requests :
        /\ req[r].c2 = "fresh"
        /\ lastReturn.ok
        /\ lastReturn.op = "update_destination"
        /\ req[r].slug = lastReturn.slug
        /\ HasSummary(r)
        /\ Unwrap(req[r].res.val).destination.url = Url("u2", None)

\* C3: every write path that returns success has invalidated every slug whose
\* resolution its committed write changed.
C3_InvalidatesEveryChangedSlug ==
    lastReturn.ok => lastReturn.changed \subseteq lastReturn.invalidated

\* C4: after update_destination or delete_destination has returned success,
\* what the cache answers for an alias slug of that destination, cached
\* before the write, is the committed state of the alias slug.
C4_AliasFollowsDestination ==
    \A al \in DOMAIN aliases :
        ( /\ adm.pc = "idle"
          /\ lastReturn.ok
          /\ lastReturn.op \in {"update_destination", "delete_destination"}
          /\ aliases[al].destination_id = lastReturn.id
          /\ aliases[al].slug \in lastReturn.cachedAtCommit
          /\ aliases[al].slug \in DOMAIN cache )
        => cache[aliases[al].slug] \in Committed(dests, aliases, aliases[al].slug)

\* C5: when the invalidate of a committed write met a fetch of the slug in
\* flight, then once that fetch has completed the cache holds no result from
\* before the write: what it answers for the slug is the committed state.
C5_NoStaleEntryAfterRace ==
    \A s \in Slugs :
        (inv[s] = "racy" /\ s \notin InflightSlugs /\ s \in DOMAIN cache)
        => cache[s] \in Committed(dests, aliases, s)

\* C6: negative caching. A resolve of a slug whose previous resolve returned
\* 'no summary', with no write or invalidation in between, evaluates no
\* fetch: it is answered at once from the cache, with 'no summary' again.
C6_NegativeCaching ==
    \A r \in Requests :
        req[r].afterNone =>
            /\ HasResolved(r)
            /\ req[r].res = OkRes(None)
            /\ req[r].servedBy = 0
            /\ ~req[r].led

C6_Witness ==
    \E r \in Requests : req[r].afterNone /\ HasResolved(r)

\* C7: a create of a destination or alias over a negatively cached slug
\* removes the negative entry: a resolve that returns a value after the
\* create has returned, and before a later write changes the slug, returns
\* a summary that root answers with a redirect.
C7_CreateRemovesNegativeEntry ==
    \A r \in Requests :
        (req[r].c7 /\ req[r].res.ok) =>
            /\ IsSome(req[r].res.val)
            /\ RedirectOutcome(Unwrap(req[r].res.val)).status \in {307, 308}

C7_Witness ==
    \E r \in Requests : req[r].c7 /\ HasSummary(r)

C9_HitFailureNotSurfaced ==
    \A r \in Requests :
        (req[r].pc = "done" /\ HasSummary(r)) =>
            req[r].status = RedirectOutcome(Unwrap(req[r].res.val)).status

PassedToPersistence(h) ==
    \/ h \in hits \cup failed
    \/ consumer.pc = "saving" /\ consumer.hit = Some(h)

\* C11: drain on shutdown. When the shutdown-complete signal is raised,
\* save_hit has been called with every record that was in the channel when
\* shutdown() was called.
C11_DrainOnShutdown ==
    is_shutdown_completed => \A h \in atShutdown : PassedToPersistence(h)

\* C12: no hit is lost to shutdown timing. Once the consumer has stopped,
\* save_hit has been called with the record of every request whose
\* schedule_save_hit returned Ok.
C12_NoHitLostAtShutdown ==
    consumer.pc = "stopped" =>
        \A r \in Requests :
            req[r].sched = "ok" =>
                PassedToPersistence(PageHitInformation(r, Unwrap(req[r].res.val)))

\* the records of request r that are in the channel, with the consumer, or
\* in the hits table
HitRecords(r) ==
    {queue[i] : i \in {j \in 1..Len(queue) : queue[j].req = r}}
    \cup {h \in hits \cup failed : h.req = r}
    \cup (IF IsSome(consumer.hit) /\ Unwrap(consumer.hit).req = r
          THEN {Unwrap(consumer.hit)} ELSE {})

\* C13: gone, not redirect. A request whose summary is DestinationDeleted or
\* AliasDeleted is answered 410 without Location, and schedule_save_hit has
\* accepted its hit.
C13_GoneIs410WithHit ==
    \A r \in Requests :
        (req[r].pc = "done" /\ HasSummary(r) /\ is_deleted(Unwrap(req[r].res.val))) =>
            /\ req[r].status = 410
            /\ req[r].location = None
            /\ req[r].sched = "ok"

\* C14: a request whose resolve returned no summary is answered 404 without
\* Location; schedule_save_hit is not called for it and no record of it
\* exists anywhere.
C14_NotFoundNoHit ==
    \A r \in Requests :
        (req[r].pc = "done" /\ req[r].res = OkRes(None)) =>
            /\ req[r].status = 404
            /\ req[r].location = None
            /\ req[r].sched = "none"
            /\ HitRecords(r) = {}

C14_Witness ==
    \E r \in Requests :
        /\ req[r].pc = "done"
        /\ req[r].res = OkRes(None)
        /\ req[r].status = 404
        /\ \E q \in Requests : HitRecords(q) # {}

\* C15: a request whose summary is DestinationExists or AliasExists is
\* answered 308 when destination.is_permanent and 307 otherwise, with the
\* Location of the destination.
C15_PermanentIs308 ==
    \A r \in Requests :
        (req[r].pc = "done" /\ HasSummary(r) /\ ~is_deleted(Unwrap(req[r].res.val))) =>
            LET d == Unwrap(req[r].res.val).destination
            IN  /\ req[r].status = (IF d.is_permanent THEN 308 ELSE 307)
                /\ req[r].location = RedirectOutcome(Unwrap(req[r].res.val)).location

\* the request was answered with a redirect to a live destination
Redirected(r) ==
    /\ req[r].pc = "done"
    /\ req[r].sched = "ok"
    /\ HasSummary(r)
    /\ ~is_deleted(Unwrap(req[r].res.val))

\* C16: query precedence. With forward_query_parameters true the Location
\* is the destination URL with its own pairs first and unchanged, followed
\* by exactly the incoming pairs whose name the destination URL does not
\* have, in incoming order and with repeated names kept.
C16_QueryPrecedence ==
    \A r \in Requests :
        (Redirected(r) /\ Unwrap(req[r].res.val).destination.forward_query_parameters) =>
            LET url == Unwrap(req[r].res.val).destination.url
                own == query_pairs(url)
                names == {own[i].name : i \in 1..Len(own)}
                NewName(p) == p.name \notin names
                loc == Unwrap(req[r].location)
            IN  /\ loc.base = url.base
                /\ query_pairs(loc) = own \o SelectSeq(req[r].query, NewName)

C16_Witness ==
    \E r \in Requests :
        /\ Redirected(r)
        /\ Unwrap(req[r].res.val).destination.forward_query_parameters
        /\ query_pairs(Unwrap(req[r].res.val).destination.url) # << >>
        /\ Len(query_pairs(Unwrap(req[r].location))) =
               Len(query_pairs(Unwrap(req[r].res.val).destination.url)) + 3
        /\ Len(req[r].query) = 4

\* C17: no forwarding when disabled. With forward_query_parameters false
\* the Location is the stored destination URL, whatever the incoming query.
C17_NoForwardingWhenDisabled ==
    \A r \in Requests :
        (Redirected(r) /\ ~Unwrap(req[r].res.val).destination.forward_query_parameters) =>
            req[r].location = Some(Unwrap(req[r].res.val).destination.url)

C17_Witness ==
    \E r \in Requests :
        /\ Redirected(r)
        /\ ~Unwrap(req[r].res.val).destination.forward_query_parameters
        /\ req[r].query # << >>
        /\ \E i \in 1..Len(req[r].query) :
              \A j \in 1..Len(query_pairs(Unwrap(req[r].res.val).destination.url)) :
                  query_pairs(Unwrap(req[r].res.val).destination.url)[j].name
                      # req[r].query[i].name

\* the percent-decoded path of the request is not UTF-8
InvalidPath(r) == ~decode_utf8(percent_decode_str(trim_matches(req[r].path))).ok

\* C18: a request whose percent-decoded path is not UTF-8 is answered 400:
\* it makes no cache lookup, starts or joins no fetch, and no hit of it is
\* scheduled or recorded.
C18_InvalidUtf8Rejected ==
    \A r \in Requests :
        (InvalidPath(r) /\ req[r].pc # "idle") =>
            /\ req[r].pc = "done"
            /\ req[r].status = 400
            /\ req[r].location = None
            /\ req[r].sched = "none"
            /\ HitRecords(r) = {}
            /\ r \notin DOMAIN inflight
            /\ req[r].servedBy = 0
            /\ ~req[r].led
            /\ req[r].res = IdleRequest.res
            /\ req[r].slug = IdleRequest.slug

C18_Witness ==
    \E r, q \in Requests :
        /\ InvalidPath(r)
        /\ req[r].status = 400
        /\ req[q].pc = "done"
        /\ req[q].status = 307
        /\ HitRecords(q) # {}

\* C19: the key root computes from a request path that is an encoding of a
\* slug text equals the key parse_slug stored when a destination was
\* created with that text.
C19_LookupKeyAgreesWithCreation ==
    \A t \in SlugTexts : parse_slug(t).ok =>
        \A r \in Requests :
            (req[r].path \in PathsOf(t) /\ req[r].pc # "idle" /\ req[r].status # 400) =>
                req[r].slug = parse_slug(t).val

\* the request was answered 500 because its resolve returned an error
ResolveFailed(r) == req[r].pc = "done" /\ ~req[r].res.ok

\* C20: the 500 responses to requests whose resolve failed all carry the
\* same body, whatever the error of the store was.
C20_GenericErrorBody ==
    \A r, q \in Requests :
        (ResolveFailed(r) /\ ResolveFailed(q)) =>
            /\ req[r].status = 500
            /\ req[r].body = req[q].body

\* C21: every response of the redirect endpoint has one of the statuses
\* 400, 404, 410, 307, 308, 500, and it has a Location header exactly when
\* the status is 307 or 308.
C21_WireStatuses ==
    \A r \in Requests :
        req[r].pc = "done" =>
            /\ req[r].status \in {400, 404, 410, 307, 308, 500}
            /\ IsSome(req[r].location) <=> req[r].status \in {307, 308}

C21_Witness ==
    \E r, q \in Requests :
        /\ req[r].pc = "done" /\ req[r].status = 308 /\ IsSome(req[r].location)
        /\ req[q].pc = "done" /\ req[q].status = 500 /\ req[q].sched = "err"

\* the rows of the aliases table with the slug, when no destination has it
AliasesOnlyAt(s) ==
    IF \E i \in DOMAIN dests : dests[i].slug = s THEN {}
    ELSE {aliases[i] : i \in {j \in DOMAIN aliases : aliases[j].slug = s}}

\* C22: a slug that matches no destination and matches an alias resolves to
\* a summary with that alias and its destination: DestinationDeleted when
\* the destination is soft-deleted, whether or not the alias is; AliasDeleted
\* when the alias is soft-deleted and the destination is live; AliasExists
\* only when both are live.
C22_AliasClassification ==
    \A r \in Requests :
        (HasSummary(r) /\ AliasesOnlyAt(req[r].slug) # {}) =>
            \E a \in AliasesOnlyAt(req[r].slug) :
                LET d == dests[a.destination_id]
                    summary == Unwrap(req[r].res.val)
                IN  /\ summary.alias = Some(a)
                    /\ summary.destination = d
                    /\ summary.kind = "DestinationDeleted" <=> d.deleted
                    /\ summary.kind = "AliasDeleted" <=> (a.deleted /\ ~d.deleted)
                    /\ summary.kind = "AliasExists" <=> (~a.deleted /\ ~d.deleted)

\* a live alias of a soft-deleted destination was resolved
C22_Witness ==
    \E r \in Requests :
        /\ HasSummary(r)
        /\ IsSome(Unwrap(req[r].res.val).alias)
        /\ ~Unwrap(Unwrap(req[r].res.val).alias).deleted
        /\ Unwrap(req[r].res.val).destination.deleted
        /\ Unwrap(req[r].res.val).kind = "DestinationDeleted"

\* C23: once a destination has is_permanent = true, an update or delete
\* request for it is rejected (400, or 500 when the store fails), and no
\* step changes its row afterwards: url, is_permanent,
\* forward_query_parameters and the soft-delete stay as they are.
C23_PermanentIsImmutable ==
    /\ [](\A h \in AdminHandlers :
            (admins[h].pc = "returned" /\ admins[h].permAtStart) =>
                admins[h].status \in {400, 500})
    /\ [][\A id \in DOMAIN dests :
            dests[id].is_permanent => dests'[id] = dests[id]]_vars

\* the records that hold slugs: the rows of both tables
SlugHolders ==
    {<< "destination", i >> : i \in DOMAIN dests} \cup {<< "alias", i >> : i \in DOMAIN aliases}

SlugOf(x) == IF x[1] = "destination" THEN dests[x[2]].slug ELSE aliases[x[2]].slug

\* C24: a create of a destination or alias whose slug a row of either table
\* holds, soft-deleted rows included, is rejected (400, or 500 when the
\* store fails), and no slug is held by more than one record.
C24_SlugsUnique ==
    /\ \A h \in AdminHandlers :
          ( /\ admins[h].pc = "returned"
            /\ admins[h].op \in {"create_destination", "create_alias"}
            /\ admins[h].heldAtStart ) => admins[h].status \in {400, 500}
    /\ \A x, y \in SlugHolders : SlugOf(x) = SlugOf(y) => x = y

\* the CurrentUser extractor accepts the token now
Accepted(token) == from_request_parts(token, users, now).ok

\* C25: once a password change has committed, every token issued before it
\* is rejected with 403; the token the change returns is accepted (until it
\* expires or a later change replaces the session); a change refused with
\* 400 leaves the token it was made with accepted (likewise).
C25_PasswordChangeRevokesTokens ==
    \A h \in AdminHandlers :
        LET r == authReqs[h]
        IN  r.op = "change_password" =>
              /\ IsSome(r.updated) =>
                    \A t \in r.tokensAtCommit :
                        /\ ~Accepted(t)
                        /\ from_request_parts(t, users, now).status_code = 403
              /\ ( /\ r.pc = "returned" /\ r.status = 200
                   /\ users[Unwrap(r.user).id].session_id = Unwrap(r.values).session_id
                   /\ decode(Unwrap(r.token), now) ) => Accepted(Unwrap(r.token))
              /\ ( /\ r.pc = "returned" /\ r.status = 400
                   /\ users[Unwrap(r.user).id].session_id = Unwrap(r.user).session_id
                   /\ decode(Unwrap(r.bearer), now) ) => Accepted(Unwrap(r.bearer))

\* a change was refused with 400, a second one with the same token went
\* through, and its token is accepted while the old one is rejected
C25_Witness ==
    \E h, g \in AdminHandlers :
        /\ authReqs[h].op = "change_password" /\ authReqs[h].status = 400
        /\ authReqs[g].op = "change_password" /\ authReqs[g].status = 200
        /\ authReqs[g].bearer = authReqs[h].bearer
        /\ Unwrap(authReqs[h].bearer) \in authReqs[g].tokensAtCommit
        /\ ~Accepted(Unwrap(authReqs[h].bearer))
        /\ Accepted(Unwrap(authReqs[g].token))

\* C26: a request without a query string is redirected to exactly the
\* stored destination URL, also when forward_query_parameters is true.
C26_NoQueryNoMerge ==
    \A r \in Requests :
        (Redirected(r) /\ req[r].query = << >>) =>
            req[r].location = Some(Unwrap(req[r].res.val).destination.url)

\* the str without the '/' characters at its two ends
Between(s) ==
    LET inner == {i \in 1..Len(s) : s[i] # "/"}
    IN  IF inner = {} THEN << >>
        ELSE SubSeq(s, CHOOSE i \in inner : \A j \in inner : i <= j,
                       CHOOSE i \in inner : \A j \in inner : i >= j)

\* the str with at most one '/' removed at each end
TrimOne(s) ==
    LET a == IF s # << >> /\ Head(s) = "/" THEN Tail(s) ELSE s
    IN  IF a # << >> /\ a[Len(a)] = "/" THEN SubSeq(a, 1, Len(a) - 1) ELSE a

\* the request was given a lookup key
HasKey(r) == req[r].pc # "idle" /\ req[r].status # 400

\* C27 as stated: the lookup key is the decoded, normalized path with at
\* most one '/' removed at each end.
C27_TrimsExactlyOne ==
    \A r \in Requests :
        HasKey(r) =>
            req[r].slug = TrimOne(nfc(decode_utf8(percent_decode_str(req[r].path)).val))

\* C27 as amended: every '/' at the two ends of the request path is removed
\* before the rest is decoded and normalized, and every '/' at the two ends
\* of a slug is removed before it is stored: a path or slug with several
\* leading or trailing separators keeps none of them.
C27_TrimsEverySeparator ==
    /\ \A r \in Requests :
          HasKey(r) =>
              req[r].slug = nfc(decode_utf8(percent_decode_str(Between(req[r].path))).val)
    /\ \A i \in DOMAIN dests :
          /\ dests[i].slug = Between(dests[i].slug)
          /\ \E t \in CreateTexts : dests[i].slug = nfc(Between(t))

\* the path //ae// was looked up under the key ae and redirected
C27_Witness ==
    \E r \in Requests :
        /\ req[r].pc = "done"
        /\ req[r].status = 307
        /\ req[r].path = << "/", "/", "ae", "/", "/" >>
        /\ req[r].slug = << "ae" >>

\* the record is in the channel or with the consumer
Pending(h) ==
    \/ \E i \in 1..Len(queue) : queue[i] = h
    \/ consumer.hit = Some(h)

\* C28: a failed save_hit drops exactly its record. The step that logs the
\* failure leaves the channel and the hits table as they were and returns
\* the consumer to its select, and the record is never in the channel, with
\* the consumer or in the hits table again.
C28_FailedHitIsDropped ==
    /\ [](\A h \in failed : h \notin hits /\ ~Pending(h))
    /\ [][ failed' # failed =>
             /\ consumer.pc = "saving"
             /\ failed' = failed \cup {Unwrap(consumer.hit)}
             /\ hits' = hits
             /\ queue' = queue
             /\ consumer' = [pc |-> "select", hit |-> None] ]_vars

\* after the failure of one record the consumer is saving the next one
C28_Witness ==
    /\ consumer.pc = "saving"
    /\ \E f \in failed : consumer.hit # Some(f)

\* C29: two-phase shutdown. The completed signal is raised only after the
\* requested signal, only by the consumer's cancelled() branch, which the
\* select polls right after recv() found the channel empty, and neither
\* signal is reset.
C29_TwoPhaseShutdown ==
    /\ [](is_shutdown_completed => is_shutting)
    /\ [][ /\ is_shutting => is_shutting'
           /\ is_shutdown_completed => is_shutdown_completed'
           /\ (is_shutdown_completed' /\ ~is_shutdown_completed) =>
                 /\ is_shutting
                 /\ consumer.pc = "polled"
                 /\ consumer'.pc = "stopped"
           /\ (consumer'.pc = "polled" /\ consumer.pc # "polled") =>
                 /\ consumer.pc = "select"
                 /\ queue = << >> ]_vars

\* the consumer saved a record, found the channel empty after shutdown() and
\* raised the completed signal
C29_Witness ==
    /\ is_shutting
    /\ is_shutdown_completed
    /\ consumer.pc = "stopped"
    /\ hits # {}

\* schedule_save_hit has been called for the request
HitCalled(r) == req[r].pc \in {"blocked", "push", "sent", "done"} /\ HasSummary(r)

\* C30: the timestamp of a persisted hit is the time at which
\* schedule_save_hit was called for its request, whatever time passes until
\* the record is sent and until the consumer inserts it.
C30_CaptureTime ==
    /\ [](\A h \in hits : h.when = req[h.req].when)
    /\ [][ \A r \in Requests :
             /\ (req[r].pc = "resolved" /\ HitCalled(r)') => req'[r].when = now
             /\ HitCalled(r) => req'[r].when = req[r].when ]_vars

\* a hit whose send waited for capacity and whose row was inserted later
\* than it was captured
C30_Witness ==
    \E h \in hits :
        /\ req[h.req].sawFull
        /\ IsSome(writtenAt[h.req])
        /\ Unwrap(writtenAt[h.req]) > h.when

\* C31: bounded cache. In every state the slug cache holds at most
\* DEFAULT_CACHE_MAX_CAPACITY entries.
C31_BoundedCache ==
    Cardinality(DOMAIN cache) <= DEFAULT_CACHE_MAX_CAPACITY

\* C32: bounded queue. In every state the channel holds at most
\* PAGE_HIT_COLLECTOR_CHANNEL_CAPACITY records, and the records it holds
\* together with the sends that own a permit are no more than that either.
C32_BoundedQueue ==
    /\ Len(queue) <= PAGE_HIT_COLLECTOR_CHANNEL_CAPACITY
    /\ PermitsInUse <= PAGE_HIT_COLLECTOR_CHANNEL_CAPACITY

\* the channel holds its capacity of records while a further producer waits
\* in send
C32_Witness ==
    /\ Len(queue) = PAGE_HIT_COLLECTOR_CHANNEL_CAPACITY
    /\ \E r \in Requests : req[r].pc = "blocked"

\* C33: errors are not cached. The step in which a failed fetch returns
\* hands its error to the calls that waited for it and leaves the cache as
\* it was, and a call for a slug whose last resolve failed is not answered
\* from the cache: it evaluates a fetch, or joins one in flight.
C33_ErrorsNotCached ==
    [][ /\ \A l \in DOMAIN inflight :
              (l \notin DOMAIN inflight' /\ ~inflight[l].f.out.ok) =>
                  /\ cache' = cache
                  /\ \A q \in Requests :
                        (req[q].servedBy = l /\ req[q].pc \in {"fetching", "waiting"}) =>
                            /\ req'[q].pc = "resolved"
                            /\ req'[q].res = inflight[l].f.out
        /\ \A r \in Requests :
              (req[r].pc = "idle" /\ req'[r].pc # "idle"
                  /\ lastRes[req'[r].slug] = "err") =>
                  req'[r].pc \in {"fetching", "waiting"} ]_vars

\* a resolve of a slug failed, and a later resolve of the same slug
\* evaluated its own fetch and returned a value
C33_Witness ==
    \E r, q \in Requests :
        /\ r < q
        /\ req[r].slug = req[q].slug
        /\ req[r].pc = "resolved" /\ req[r].led /\ ~req[r].res.ok
        /\ req[q].pc = "resolved" /\ req[q].led /\ req[q].res.ok
        /\ req[q].slug \in DOMAIN cache

\* C34: a write path whose query fails returns the connection error (500)
\* from the query itself: it has not called invalidate, and the cache and
\* the tables are as they were; a write path leaves its query otherwise
\* only towards its invalidate.
C34_FailedWriteKeepsCache ==
    [][ adm.pc = "write" =>
          IF adm'.pc = "idle"
          THEN /\ ~lastReturn'.ok
               /\ lastReturn'.status = 500
               /\ lastReturn'.invalidated = {}
               /\ cache' = cache
               /\ dests' = dests /\ aliases' = aliases
          ELSE adm'.pc \in {"write", "invalidate"} ]_vars

\* the write of an update, a delete or an alias delete failed while the
\* cache held the slug, and the cache still holds it
C34_Witness ==
    /\ lastReturn.op \in {"update_destination", "delete_destination", "delete_alias"}
    /\ lastReturn.status = 500
    /\ lastReturn.slug \in DOMAIN cache
    /\ adm.pc = "idle"

\* C35: shutdown liveness. Once shutdown() has been called the consumer
\* raises the completed signal and stops.
C35_ShutdownCompletes ==
    is_shutting ~> (is_shutdown_completed /\ consumer.pc = "stopped")

\* the consumer has completed the shutdown after every request was answered
\* and the channel was emptied
C35_Witness ==
    /\ is_shutdown_completed
    /\ consumer.pc = "stopped"
    /\ queue = << >>
    /\ \A r \in Requests : req[r].pc = "done"

\* a fetch of the slug from the tables as they are returns a deleted summary
FreshlyGone(s) ==
    \A v \in Committed(dests, aliases, s) : IsSome(v) /\ is_deleted(Unwrap(v))

\* C36: gone is permanent. Once a fetch of a slug from the tables returns
\* DestinationDeleted or AliasDeleted, it does so after every further step
\* of the administrative requests.
C36_GoneIsPermanent ==
    [][\A s \in Slugs : FreshlyGone(s) => FreshlyGone(s)']_vars

\* C37: every hit record of a request carries the id of the destination of
\* the request's summary; it carries an alias id exactly when the slug
\* matches no destination and matches an alias, and then the id of that
\* alias, whatever the kind of the summary.
C37_HitCarriesAlias ==
    \A r \in Requests : \A h \in HitRecords(r) :
        /\ HasSummary(r)
        /\ h.destination_id = Unwrap(req[r].res.val).destination.id
        /\ IsSome(h.alias_id) <=> AliasesOnlyAt(req[r].slug) # {}
        /\ IsSome(h.alias_id) =>
              \E a \in AliasesOnlyAt(req[r].slug) :
                  /\ a.id = Unwrap(h.alias_id)
                  /\ a.destination_id = h.destination_id

\* the hit of a live alias of a soft-deleted destination was inserted with
\* the alias id, and a hit of the destination's own slug without one
C37_Witness ==
    /\ \E h \in hits :
          /\ IsSome(h.alias_id)
          /\ Unwrap(req[h.req].res.val).kind = "DestinationDeleted"
    /\ \E h \in hits \cup {queue[i] : i \in 1..Len(queue)} :
          /\ ~IsSome(h.alias_id)
          /\ Unwrap(req[h.req].res.val).kind = "DestinationDeleted"

\* C38: the destination_id of every alias row, soft-deleted rows included,
\* is the id of a row of the destinations table, and no fetch of a slug has
\* panicked on the expect("Alias has valid destination_id").
C38_AliasHasDestination ==
    /\ \A a \in DOMAIN aliases : aliases[a].destination_id \in DOMAIN dests
    /\ \A l \in DOMAIN inflight : inflight[l].f.phase # "panicked"

\* a destination was deleted by a request, and a fetch of the slug of one of
\* its aliases has read the destination's row after that and returned it
C38_Witness ==
    /\ lastReturn.op = "delete_destination"
    /\ lastReturn.status = 204
    /\ \E s \in DOMAIN cache :
          /\ IsSome(cache[s])
          /\ Unwrap(cache[s]).kind = "DestinationDeleted"
          /\ IsSome(Unwrap(cache[s]).alias)
          /\ Unwrap(cache[s]).destination.id = lastReturn.id

\* C39: while the consumer task runs a sender of the hit channel is held, so
\* no poll of recv() returns None and the loop never takes the branch of a
\* closed channel; the task ends only from the cancelled() branch, after
\* shutdown() was called.
C39_NeverClosed ==
    /\ [](consumer.pc # "stopped" => << "database_", 0 >> \in Senders)
    /\ [](consumer.pc # "stopped" => "closed" \notin recv(queue, Senders))
    /\ [](consumer.pc # "closed")
    /\ [][(consumer'.pc = "stopped" /\ consumer.pc # "stopped") =>
             (is_shutting /\ consumer.pc = "polled")]_vars

\* every request was answered and its hit inserted, no request runs, and the
\* task sleeps on an empty channel that no shutdown() has cancelled: the only
\* sender held for certain is the task's own
C39_Witness ==
    /\ consumer.pc = "polled"
    /\ queue = << >>
    /\ ~is_shutting
    /\ \A r \in Requests : req[r].pc = "done"
    /\ hits # {}
    /\ Senders = {<< "database_", 0 >>}

====
